---- MODULE Spec2Model ----
(***************************************************************************)
(* Onion-Finder: the scanning engine of internal/scanner/scan.go.          *)
(*                                                                         *)
(* Bytes, runes and path characters are integers (their code).  Strings    *)
(* are sequences of them.  The sizes of the source are kept in proportion  *)
(* but scaled down so that files that span several chunks can be           *)
(* enumerated:                                                             *)
(*   MinRun        6   for the 56 of [a-z2-7]{56,} (longer than "onion")   *)
(*   ChunkOverlap 26   for 128        (128 >= 2*(56+6), 26 >= 2*(6+6))     *)
(*   SampleMax    28   for 200                                             *)
(*   FirstChunk   29   for 4096                                            *)
(*   ChunkSize    30   for 1024*1024                                       *)
(*   QueueCap      2   for 100                                             *)
(* The suffix ".onion", the divisor 4 of the UTF-16LE heuristic and the    *)
(* 500 MiB ceiling are the source's own.                                   *)
(***************************************************************************)
EXTENDS Integers, Sequences, FiniteSets, TLC

(***************************************************************************)
(* Constants of the source                                                 *)
(***************************************************************************)
MinRun == 6

ChunkSize == 30

ChunkOverlap == 26

FirstChunk == 29

SampleMax == 28

MaxFileSize == 524288000

\* ".onion"
DotOnion == <<46, 111, 110, 105, 111, 110>>

\* the deny-list, scaled: "dddddd.onion" and "rrrrrr.onion"
knownGenericOnions ==
    { <<100, 100, 100, 100, 100, 100>> \o DotOnion,
      <<114, 114, 114, 114, 114, 114>> \o DotOnion }

(***************************************************************************)
(* Sequence helpers                                                        *)
(***************************************************************************)
Min(a, b) == IF a <= b THEN a ELSE b

SetMin(S) == CHOOSE x \in S : \A y \in S : x <= y

Range(s) == { s[i] : i \in 1..Len(s) }

\* strings.HasPrefix
HasPrefix(s, p) == Len(p) <= Len(s) /\ SubSeq(s, 1, Len(p)) = p

RECURSIVE Rep(_, _)
Rep(b, n) == IF n <= 0 THEN <<>> ELSE <<b>> \o Rep(b, n - 1)

(***************************************************************************)
(* PatternMatcher: onionRegex = (?i)[a-z2-7]{56,}\.onion                   *)
(***************************************************************************)
IsLowerAZ(b) == b >= 97 /\ b <= 122

IsUpperAZ(b) == b >= 65 /\ b <= 90

IsDigit27(b) == b >= 50 /\ b <= 55

\* the class [a-z2-7] under (?i)
IsBase32(b) == IsLowerAZ(b) \/ IsUpperAZ(b) \/ IsDigit27(b)

ToLowerByte(b) == IF IsUpperAZ(b) THEN b + 32 ELSE b

\* strings.ToLower
ToLower(s) == [i \in 1..Len(s) |-> ToLowerByte(s[i])]

\* first index >= i that is past the end or holds no class character
RECURSIVE RunEnd(_, _)
RunEnd(s, i) ==
    IF i > Len(s) \/ ~IsBase32(s[i]) THEN i ELSE RunEnd(s, i + 1)

\* (?i)\.onion at index e
SuffixAt(s, e) ==
    /\ e + Len(DotOnion) - 1 <= Len(s)
    /\ ToLower(SubSeq(s, e, e + Len(DotOnion) - 1)) = DotOnion

\* leftmost, greedy, non-overlapping matches from index i on
RECURSIVE FindAllFrom(_, _)
FindAllFrom(s, i) ==
    IF i > Len(s) THEN <<>>
    ELSE LET e == RunEnd(s, i)
         IN  IF e - i >= MinRun /\ SuffixAt(s, e)
             THEN <<SubSeq(s, i, e + Len(DotOnion) - 1)>>
                  \o FindAllFrom(s, e + Len(DotOnion))
             ELSE FindAllFrom(s, i + 1)

\* onionRegex.FindAll / FindAllString
FindAll(s) == FindAllFrom(s, 1)

isGenericOnion(value) == ToLower(value) \in knownGenericOnions

(***************************************************************************)
(* ChunkScanner: the cleansed projection and the two strategies            *)
(***************************************************************************)
isValidOnionChar(b) ==
    IsLowerAZ(b) \/ IsUpperAZ(b) \/ IsDigit27(b) \/ b = 46

RECURSIVE ExtractFrom(_, _, _)
ExtractFrom(data, i, buf) ==
    IF i > Len(data) THEN buf
    ELSE LET b == data[i]
         IN  IF b = 0 THEN ExtractFrom(data, i + 1, buf)
             ELSE IF isValidOnionChar(b)
             THEN ExtractFrom(data, i + 1, Append(buf, ToLowerByte(b)))
             ELSE IF Len(buf) > 0 /\ buf[Len(buf)] /= 32
             THEN ExtractFrom(data, i + 1, Append(buf, 32))
             ELSE ExtractFrom(data, i + 1, buf)

extractOnionChars(data) == ExtractFrom(data, 1, <<>>)

scanChunk(data) == FindAll(data) \o FindAll(extractOnionChars(data))

(***************************************************************************)
(* EncodingClassifier                                                      *)
(***************************************************************************)
\* the odd indices 1, 3, ... below sampleSize (0-based, as in the source)
OddIndices(sampleSize) == { i \in 1..(sampleSize - 1) : i % 2 = 1 }

NullCount(data, sampleSize) ==
    Cardinality({ i \in OddIndices(sampleSize) : data[i + 1] = 0 })

detectUTF16LE(data) ==
    IF Len(data) < 2 THEN FALSE
    ELSE IF data[1] = 255 /\ data[2] = 254 THEN TRUE
    ELSE LET sampleSize == Min(Len(data), SampleMax)
         IN  NullCount(data, sampleSize) > sampleSize \div 4

(***************************************************************************)
(* decodeUTF16LE                                                           *)
(***************************************************************************)
IsHighSurrogate(u) == u >= 55296 /\ u <= 56319

IsLowSurrogate(u) == u >= 56320 /\ u <= 57343

\* unicode/utf16.Decode
RECURSIVE Utf16Decode(_, _)
Utf16Decode(u16, i) ==
    IF i > Len(u16) THEN <<>>
    ELSE IF IsHighSurrogate(u16[i]) /\ i < Len(u16) /\ IsLowSurrogate(u16[i + 1])
    THEN <<65536 + (u16[i] - 55296) * 1024 + (u16[i + 1] - 56320)>>
         \o Utf16Decode(u16, i + 2)
    ELSE IF IsHighSurrogate(u16[i]) \/ IsLowSurrogate(u16[i])
    THEN <<65533>> \o Utf16Decode(u16, i + 1)
    ELSE <<u16[i]>> \o Utf16Decode(u16, i + 1)

decodeUTF16LE(data0) ==
    IF Len(data0) < 2 THEN <<>>
    ELSE LET start == IF data0[1] = 255 /\ data0[2] = 254 THEN 2 ELSE 0
             data  == IF (Len(data0) - start) % 2 /= 0
                      THEN SubSeq(data0, 1, Len(data0) - 1) ELSE data0
             u16   == [i \in 1..((Len(data) - start) \div 2) |->
                          data[start + 2 * (i - 1) + 1]
                          + 256 * data[start + 2 * (i - 1) + 2]]
         IN  Utf16Decode(u16, 1)

(***************************************************************************)
(* scanFile, scanFileChunked                                               *)
(***************************************************************************)
\* the match loop of scanFile / scanFileChunked: lower-case, drop generic
\* addresses, append a record for each value not yet seen in this file
RECURSIVE CollectFrom(_, _, _, _)
CollectFrom(matches, i, acc, path) ==
    IF i > Len(matches) THEN acc
    ELSE LET value == ToLower(matches[i])
         IN  IF isGenericOnion(value)
             THEN CollectFrom(matches, i + 1, acc, path)
             ELSE IF value \notin acc.seen
             THEN CollectFrom(matches, i + 1,
                      [seen    |-> acc.seen \cup {value},
                       results |-> Append(acc.results,
                                      [Value |-> value, Path |-> path])],
                      path)
             ELSE CollectFrom(matches, i + 1, acc, path)

\* faulty variant: the match is recorded as found, without strings.ToLower
RECURSIVE CollectFromKeepCase(_, _, _, _)
CollectFromKeepCase(matches, i, acc, path) ==
    IF i > Len(matches) THEN acc
    ELSE LET value == matches[i]
         IN  IF isGenericOnion(value)
             THEN CollectFromKeepCase(matches, i + 1, acc, path)
             ELSE IF value \notin acc.seen
             THEN CollectFromKeepCase(matches, i + 1,
                      [seen    |-> acc.seen \cup {value},
                       results |-> Append(acc.results,
                                      [Value |-> value, Path |-> path])],
                      path)
             ELSE CollectFromKeepCase(matches, i + 1, acc, path)

CollectMatchesKeepCase(matches, acc, path) ==
    CollectFromKeepCase(matches, 1, acc, path)

\* faulty variant: the per-file seen map is not consulted
RECURSIVE CollectFromNoSeen(_, _, _, _)
CollectFromNoSeen(matches, i, acc, path) ==
    IF i > Len(matches) THEN acc
    ELSE LET value == ToLower(matches[i])
         IN  IF isGenericOnion(value)
             THEN CollectFromNoSeen(matches, i + 1, acc, path)
             ELSE CollectFromNoSeen(matches, i + 1,
                      [seen    |-> acc.seen \cup {value},
                       results |-> Append(acc.results,
                                      [Value |-> value, Path |-> path])],
                      path)

CollectMatchesNoSeen(matches, acc, path) ==
    CollectFromNoSeen(matches, 1, acc, path)

CollectMatches(matches, acc, path) == CollectFrom(matches, 1, acc, path)

\* faulty variant: the bytes are matched as they are, without decoding
scanUTF16NoDecode(data, path) ==
    CollectMatches(FindAll(data), [seen |-> {}, results |-> <<>>], path).results

\* the UTF-16LE branch of scanFile, on the bytes os.ReadFile returned
scanUTF16(data, path) ==
    CollectMatches(FindAll(decodeUTF16LE(data)),
                   [seen |-> {}, results |-> <<>>], path).results

\* room left in buffer after the overlap: len(buffer[len(overlap):])
ReadCap(overlap) == ChunkSize + ChunkOverlap - Len(overlap)

\* buffer[:totalLen] after a read of n bytes at offset pos
ChunkView(overlap, content, pos, n) ==
    overlap \o SubSeq(content, pos + 1, pos + n)

\* faulty variant: the overlap is copied from the head of the view, not its tail
NextOverlapHead(overlap, view) ==
    IF Len(view) > ChunkOverlap
    THEN SubSeq(view, 1, ChunkOverlap)
    ELSE overlap

\* the overlap kept for the next read
NextOverlap(overlap, view) ==
    IF Len(view) > ChunkOverlap
    THEN SubSeq(view, Len(view) - ChunkOverlap + 1, Len(view))
    ELSE overlap

ChunkInit == [pos |-> 0, overlap |-> <<>>, seen |-> {}, results |-> <<>>]

\* one iteration of the read loop that got n > 0 bytes
ChunkStep(st, content, n, path) ==
    LET view == ChunkView(st.overlap, content, st.pos, n)
        acc  == CollectMatches(scanChunk(view),
                    [seen |-> st.seen, results |-> st.results], path)
    IN  [pos     |-> st.pos + n,
         overlap |-> NextOverlap(st.overlap, view),
         seen    |-> acc.seen,
         results |-> acc.results]

\* the read loop when every Read fills the slice it is given (a regular file)
RECURSIVE ChunkLoop(_, _, _)
ChunkLoop(st, content, path) ==
    LET n == Min(ReadCap(st.overlap), Len(content) - st.pos)
    IN  IF n = 0 THEN st
        ELSE ChunkLoop(ChunkStep(st, content, n, path), content, path)

scanFileChunked(content, path) == ChunkLoop(ChunkInit, content, path).results

scanFile(content, readable, path) ==
    IF ~readable THEN <<>>
    ELSE LET n == Min(FirstChunk, Len(content))
         IN  IF n = 0 THEN <<>>
             ELSE IF detectUTF16LE(SubSeq(content, 1, n))
             THEN scanUTF16(content, path)
             ELSE scanFileChunked(content, path)

(***************************************************************************)
(* Inputs: file contents                                                   *)
(***************************************************************************)
MaxPad == 88

MaxGap == 1

\* "/m/f"
FilePath == <<47, 109, 47, 102>>

\* "aaaaaa.onion", "AAAAAA.ONION", "bbbbbb.onion", "DDDDDD.onion"
AddrA == Rep(97, MinRun) \o DotOnion

AddrUpper == Rep(65, MinRun) \o <<46, 79, 78, 73, 79, 78>>

AddrB == Rep(98, MinRun) \o DotOnion

GenericLower == Rep(100, MinRun) \o DotOnion

GenericUpper == Rep(68, MinRun) \o DotOnion

\* a run longer than the overlap, and one that is one character short
LongRun == Rep(99, ChunkOverlap + 4) \o DotOnion

ShortRun == Rep(97, MinRun - 1) \o DotOnion

\* a null byte after every byte: ASCII text as UTF-16LE code units
RECURSIVE Interleave(_)
Interleave(s) == IF s = <<>> THEN <<>> ELSE <<Head(s), 0>> \o Interleave(Tail(s))

Pieces ==
    { <<>>, AddrA, AddrUpper, GenericLower, GenericUpper,
      Interleave(AddrA), LongRun, ShortRun }

Tails == { <<>>, AddrA, AddrB }

\* filler '#', a piece, a gap, a second piece
RawContents ==
    { Rep(35, n1) \o p1 \o Rep(35, n2) \o p2 :
        n1 \in 0..MaxPad, p1 \in Pieces, n2 \in 0..MaxGap, p2 \in Tails }

\* UTF-16LE text, with or without the byte-order mark, even or odd length;
\* 0xD800 alone is an unpaired surrogate
Utf16Contents ==
    { bom \o Interleave(t1) \o mid \o Interleave(t2) \o odd :
        bom \in { <<>>, <<255, 254>> },
        t1  \in { AddrA, AddrUpper, GenericUpper, ShortRun },
        mid \in { <<>>, <<35, 0>>, <<0, 216>> },
        t2  \in { <<>>, AddrA, AddrB },
        odd \in { <<>>, <<35>> } }

\* a null byte between every two bytes of s
NullBetween(s) == SubSeq(Interleave(s), 1, 2 * Len(s) - 1)

\* binary data: an address with null bytes between its characters, one byte
\* off the 16-bit grid, after a byte-order mark, after enough UTF-16LE text
\* for the sample to be classified UTF16LE, or after nothing
SkewedContents ==
    { head \o <<35>> \o NullBetween(a) \o tail :
        head \in { <<>>, <<255, 254>>, Interleave(Rep(35, SampleMax \div 4 + 1)) },
        a    \in { AddrA, AddrUpper },
        tail \in { <<>>, <<0>>, <<0, 35, 0>> } }

FileContents == RawContents \cup Utf16Contents \cup SkewedContents

MaxPadShort == 28

\* the files read with short reads or with read errors
SmallContents ==
    { Rep(35, n1) \o p \o Rep(35, n2) :
        n1 \in 0..MaxPadShort, p \in { AddrA, AddrUpper }, n2 \in { 0, MinRun } }
    \cup { <<255, 254>> \o Interleave(AddrA) }

\* files of more than one read for the runs with read errors: aaaaaa.onion
\* in the first read or across its end, bbbbbb.onion after it
TwoReadContents ==
    { Rep(35, n1) \o AddrA \o Rep(35, n2) \o AddrB :
        n1 \in ChunkSize..(ChunkSize + ChunkOverlap), n2 \in { 1, MinRun } }

(***************************************************************************)
(* Paths and the ExclusionFilter                                           *)
(***************************************************************************)
\* path/filepath.Clean, for paths without ".", ".." or doubled separators:
\* trailing separators are dropped (the root "/" stays)
RECURSIVE Clean(_)
Clean(p) ==
    IF Len(p) > 1 /\ p[Len(p)] = 47 THEN Clean(SubSeq(p, 1, Len(p) - 1)) ELSE p

\* path/filepath.Join of a directory and a name
Join(dir, name) == Clean(Clean(dir) \o <<47>> \o name)

\* path/filepath.Base
Base(path) ==
    LET p      == Clean(path)
        slashs == { i \in 1..Len(p) : p[i] = 47 }
        last   == IF slashs = {} THEN 0
                  ELSE CHOOSE i \in slashs : \A j \in slashs : j <= i
    IN  IF p = <<47>> THEN p ELSE SubSeq(p, last + 1, Len(p))

\* "Windows", "Program Files", "Program Files (x86)", "PerfLogs"
NameWindows == <<87, 105, 110, 100, 111, 119, 115>>

NameProgramFiles ==
    <<80, 114, 111, 103, 114, 97, 109, 32, 70, 105, 108, 101, 115>>

NameProgramFilesX86 == NameProgramFiles \o <<32, 40, 120, 56, 54, 41>>

NamePerfLogs == <<80, 101, 114, 102, 76, 111, 103, 115>>

buildExcludedPaths(mountRoot) ==
    << Join(mountRoot, NameWindows),
       Join(mountRoot, NameProgramFiles),
       Join(mountRoot, NameProgramFilesX86),
       Join(mountRoot, NamePerfLogs) >>

\* faulty variant: the comparison keeps the letter case
isExcludedPathCaseSensitive(path, excluded) ==
    \E k \in 1..Len(excluded) : HasPrefix(Clean(path), Clean(excluded[k]))

isExcludedPath(path, excluded) ==
    \E k \in 1..Len(excluded) :
        HasPrefix(ToLower(Clean(path)), ToLower(Clean(excluded[k])))

(***************************************************************************)
(* Inputs: the file tree                                                   *)
(***************************************************************************)
\* the scan root "/m/", as a mount point is given
Root == <<47, 109, 47>>

\* "cccccc.onion"
AddrC == Rep(99, MinRun) \o DotOnion

\* file contents: raw text with upper-case and generic addresses, and
\* UTF-16LE text with a byte-order mark
ContentRaw ==
    AddrUpper \o <<35>> \o AddrB \o <<35>> \o GenericUpper \o <<35>> \o AddrA

ContentUtf16 ==
    <<255, 254>> \o Interleave(AddrA \o <<35>> \o GenericLower \o <<35>> \o AddrUpper)

Entry(path, kind, size, infoErr, readable, content) ==
    [path |-> path, kind |-> kind, size |-> size, infoErr |-> infoErr,
     readable |-> readable, content |-> content]

\* "WINDOWS", "d"; below: "x", "lnk", "y", "z"
DirWINDOWS == Join(Root, <<87, 73, 78, 68, 79, 87, 83>>)

DirD == Join(Root, <<100>>)

\* the directory "eeeeee.onion" and the file "uuuuuu.onion"
DirE == Join(Root, Rep(101, MinRun) \o DotOnion)

PathU == Join(Root, Rep(117, MinRun) \o DotOnion)

\* The candidate entries in the order WalkDir visits them (lexical by name
\* within a directory), each with the group that brings it into the tree.
\* An entry of kind "walkErr" is a call of the callback with err /= nil: the
\* second call for the directory /m/eeeeee.onion, whose ReadDir fails.
Universe ==
    << [g |-> "root", e |-> Entry(Root, "dir", 0, FALSE, TRUE, <<>>)],
       [g |-> "name", e |-> Entry(Join(Root, AddrUpper), "regular",
                                  Len(ContentRaw), FALSE, TRUE, ContentRaw)],
       [g |-> "win",  e |-> Entry(DirWINDOWS, "dir", 0, FALSE, TRUE, <<>>)],
       [g |-> "win",  e |-> Entry(Join(DirWINDOWS, AddrB), "regular",
                                  Len(AddrB), FALSE, TRUE, AddrB)],
       [g |-> "skip", e |-> Entry(Join(Root, AddrC), "regular",
                                  MaxFileSize + 1, FALSE, TRUE, AddrA)],
       [g |-> "sub",  e |-> Entry(DirD, "dir", 0, FALSE, TRUE, <<>>)],
       [g |-> "sub",  e |-> Entry(Join(DirD, <<120>>), "regular",
                                  Len(ContentUtf16), FALSE, TRUE, ContentUtf16)],
       [g |-> "sub",  e |-> Entry(Join(DirD, AddrB), "regular",
                                  Len(AddrA), FALSE, TRUE, AddrA)],
       [g |-> "skip", e |-> Entry(DirE, "dir", 0, FALSE, TRUE, <<>>)],
       [g |-> "skip", e |-> Entry(DirE, "walkErr", 0, TRUE, FALSE, <<>>)],
       [g |-> "lnk",  e |-> Entry(Join(Root, <<108, 110, 107>>), "other",
                                  0, FALSE, TRUE, ContentRaw)],
       [g |-> "skip", e |-> Entry(PathU, "regular",
                                  Len(AddrA), TRUE, TRUE, AddrA)],
       [g |-> "max",  e |-> Entry(Join(Root, <<121>>), "regular",
                                  MaxFileSize, FALSE, TRUE, AddrB)],
       [g |-> "deny", e |-> Entry(Join(Root, <<122>>), "regular",
                                  Len(AddrA), FALSE, FALSE, AddrA)] >>

Groups == { "name", "win", "skip", "sub", "lnk", "max", "deny" }

MaxGroups == 2

MaxWorkers == 2

QueueCap == 2

RECURSIVE Pick(_, _)
Pick(gs, i) ==
    IF i > Len(Universe) THEN <<>>
    ELSE IF Universe[i].g \in gs THEN <<Universe[i].e>> \o Pick(gs, i + 1)
    ELSE Pick(gs, i + 1)

\* the tree whose root is not there: Lstat(root) fails and WalkDir calls the
\* callback once, with the error
RootGone == << Entry(Root, "walkErr", 0, TRUE, FALSE, <<>>) >>

TreeIds == { gs \in SUBSET Groups : Cardinality(gs) <= MaxGroups } \cup { {"gone"} }

\* the tree of every group set, tabulated once (@@ yields an explicit function)
TreeOf ==
    [gs \in SUBSET Groups \cup { {"gone"} } |->
        IF gs = {"gone"} THEN RootGone ELSE Pick(gs \cup {"root"}, 1)] @@ <<>>

VARIABLES fContent, fReadable, fIo, fPc, fEnc, fSt, fView, fRead, fOut

VARIABLES treeId, numWorkers, mPc, wpos, queue, closed, results, seen, mux,
          wk, filesProcessed, pPc, doneClosed, enq, deq, merged, ret

fvars == <<fContent, fReadable, fIo, fPc, fEnc, fSt, fView, fRead, fOut>>

pvars == <<treeId, numWorkers, mPc, wpos, queue, closed, results, seen, mux,
           wk, filesProcessed, pPc, doneClosed, enq, deq, merged, ret>>

VARIABLES dSample, dOut

dvars == <<dSample, dOut>>

VARIABLES xRoot, xPath, xOut

xvars == <<xRoot, xPath, xOut>>

VARIABLES cLog, cLogExists, cHist, cPc, cArgs, cDev, cMounted, cDeferred,
          cCalls, cEnd, cPrev, cCur, cRun

cvars == <<cLog, cLogExists, cHist, cPc, cArgs, cDev, cMounted, cDeferred,
           cCalls, cEnd, cPrev, cCur, cRun>>

vars == <<fvars, pvars, dvars, xvars, cvars>>

\* what the steps of one process leave alone: the other processes' variables
notPipe == <<fvars, dvars, xvars, cvars>>

notFile == <<pvars, dvars, xvars, cvars>>

notDetect == <<fvars, pvars, xvars, cvars>>

notExcl == <<fvars, pvars, dvars, cvars>>

notCli == <<fvars, pvars, dvars, xvars>>

NoRead == [n |-> 0, err |-> "nil"]

\* resultsMux: free, or held by the walker, the progress goroutine or worker w
MuxHeld(who, w) == [by |-> who, w |-> w]

MuxFree == MuxHeld("free", 0)

\* the variables of the file scan while the pipeline is what runs
FileIdle ==
    /\ fContent = <<>>
    /\ fReadable = TRUE
    /\ fIo = "full"
    /\ fPc = "idle"
    /\ fEnc = "none"
    /\ fSt = ChunkInit
    /\ fView = <<>>
    /\ fRead = NoRead
    /\ fOut = <<>>

\* the variables of the pipeline while one file scan is what runs
PipeIdle ==
    /\ treeId = {}
    /\ numWorkers = 0
    /\ mPc = "idle"
    /\ wpos = 0
    /\ queue = <<>>
    /\ closed = 0
    /\ results = <<>>
    /\ seen = {}
    /\ mux = MuxFree
    /\ wk = <<>>
    /\ filesProcessed = 0
    /\ pPc = "idle"
    /\ doneClosed = FALSE
    /\ enq = <<>>
    /\ deq = <<>>
    /\ merged = <<>>
    /\ ret = <<>>

\* the variables of the classifier run on its own
DetectIdle == dSample = <<>> /\ dOut = "idle"

\* the variables of the exclusion filter run on its own
ExclIdle == xRoot = <<>> /\ xPath = <<>> /\ xOut = "idle"

NoArgs == [dismount |-> FALSE, keep |-> FALSE, input |-> "none"]

NoRequest == [kind |-> "none", mount |-> 0, logged |-> FALSE]

\* the variables of the command line while no command runs
CliIdle ==
    /\ cLog = <<>>
    /\ cLogExists = FALSE
    /\ cHist = <<>>
    /\ cPc = "off"
    /\ cArgs = NoArgs
    /\ cDev = <<>>
    /\ cMounted = FALSE
    /\ cDeferred = FALSE
    /\ cCalls = <<>>
    /\ cEnd = "none"
    /\ cPrev = NoRequest
    /\ cCur = NoRequest
    /\ cRun = 0

(***************************************************************************)
(* detectUTF16LE run on its own, on samples of every length                *)
(***************************************************************************)
MaxExtra == 4

\* the 0-based odd indices of a sample of length len, in order
OddSeq(len) == [k \in 1..(len \div 2) |-> 2 * k - 1]

\* 'x' everywhere, except null bytes at k odd indices (the first k or the last
\* k), and the byte-order mark or its first byte alone at the head
Sample(len, k, side, head) ==
    LET odd  == OddSeq(len)
        zero == IF side = "first" THEN { odd[j] : j \in 1..k }
                ELSE { odd[j] : j \in (Len(odd) - k + 1)..Len(odd) }
    IN  [i \in 1..len |->
            IF head = "bom" /\ i = 1 THEN 255
            ELSE IF head = "bom" /\ i = 2 THEN 254
            ELSE IF head = "ff" /\ i = 1 THEN 255
            ELSE IF (i - 1) \in zero THEN 0
            ELSE 120]

DetectSamples ==
    UNION { { Sample(len, k, side, head) :
                k \in 0..(len \div 2), side \in { "first", "last" },
                head \in { "none", "bom", "ff" } } :
            len \in 0..(SampleMax + MaxExtra) }

DetectInit ==
    /\ dSample \in DetectSamples
    /\ dOut = "none"
    /\ FileIdle
    /\ PipeIdle
    /\ ExclIdle
    /\ CliIdle

\* classify(sample)
Detect ==
    /\ dOut = "none"
    /\ dOut' = IF detectUTF16LE(dSample) THEN "UTF16LE" ELSE "RAW"
    /\ UNCHANGED dSample
    /\ UNCHANGED notDetect

DetectNext == Detect

DetectSpec == DetectInit /\ [][DetectNext]_vars

(***************************************************************************)
(* isExcludedPath run on its own, on the paths of entries at and below the *)
(* scan root                                                               *)
(***************************************************************************)
\* strings.ToUpper, for the names above
ToUpper(s) == [i \in 1..Len(s) |-> IF IsLowerAZ(s[i]) THEN s[i] - 32 ELSE s[i]]

\* the names of entries of the scan root: the excluded names, "WindowsOld",
\* "Windows.old", "Win", "Program FilesX", "PerfLogs2", "Users", "d", and
\* all of them in lower and in upper case
RootNames ==
    LET names == { NameWindows, NameProgramFiles, NameProgramFilesX86, NamePerfLogs,
                   NameWindows \o <<79, 108, 100>>,
                   NameWindows \o <<46, 111, 108, 100>>,
                   <<87, 105, 110>>,
                   NameProgramFiles \o <<88>>,
                   NamePerfLogs \o <<50>>,
                   <<85, 115, 101, 114, 115>>,
                   <<100>> }
    IN  names \cup { ToLower(n) : n \in names } \cup { ToUpper(n) : n \in names }

\* what follows the name: nothing (the entry itself), a separator, a file, a
\* file in a subdirectory, a file named after an address
BelowNames ==
    { <<>>, <<47>>, <<47, 120>>, <<47, 115, 117, 98, 47, 120>>, <<47>> \o AddrA }

\* the scan root as given: "/m/", "/m"
ScanRoots == { Root, Clean(Root) }

ExclInit ==
    /\ xRoot \in ScanRoots
    /\ xPath \in { Join(xRoot, n) \o b : n \in RootNames, b \in BelowNames }
    /\ xOut = "none"
    /\ FileIdle
    /\ PipeIdle
    /\ DetectIdle
    /\ CliIdle

\* isExcludedPath(path, buildExcludedPaths(root))
Exclude ==
    /\ xOut = "none"
    /\ xOut' = IF isExcludedPath(xPath, buildExcludedPaths(xRoot))
               THEN "excluded" ELSE "kept"
    /\ UNCHANGED <<xRoot, xPath>>
    /\ UNCHANGED notExcl

ExclNext == Exclude

ExclSpec == ExclInit /\ [][ExclNext]_vars

(***************************************************************************)
(* scanFile as a process: one file, one step per system call               *)
(***************************************************************************)
FileInit ==
    /\ \/ fReadable = TRUE /\ fIo = "full" /\ fContent \in FileContents
       \/ fReadable = TRUE /\ fIo \in { "short", "fail" } /\ fContent \in SmallContents
       \/ fReadable = TRUE /\ fIo = "fail" /\ fContent \in TwoReadContents
       \/ fReadable = FALSE /\ fIo = "full" /\ fContent \in { AddrA }
    /\ fPc = "open"
    /\ fEnc = "none"
    /\ fSt = ChunkInit
    /\ fView = <<>>
    /\ fRead = NoRead
    /\ fOut = <<>>
    /\ PipeIdle
    /\ DetectIdle
    /\ ExclIdle
    /\ CliIdle

\* os.Open
OpenFile ==
    /\ fPc = "open"
    /\ IF fReadable
       THEN fPc' = "sample" /\ fOut' = fOut
       ELSE fPc' = "done" /\ fOut' = <<>>
    /\ UNCHANGED <<fContent, fReadable, fIo, fEnc, fSt, fView, fRead>>
    /\ UNCHANGED notFile

\* the sizes a Read of a slice of m bytes may return when m bytes are there:
\* all of them; with short reads, fewer; with read errors, none
SampleSizes(m) ==
    IF m = 0 THEN { 0 }
    ELSE IF fIo = "short" THEN { n \in { 1, MinRun, m } : n <= m }
    ELSE IF fIo = "fail" THEN { 0, m }
    ELSE { m }

\* the 4096-byte sample (its error is dropped), detectUTF16LE, Seek(0, 0)
ReadSample ==
    /\ fPc = "sample"
    /\ \E n \in SampleSizes(Min(FirstChunk, Len(fContent))) :
           IF n = 0
           THEN fPc' = "done" /\ fEnc' = fEnc /\ fOut' = <<>>
           ELSE IF detectUTF16LE(SubSeq(fContent, 1, n))
           THEN fPc' = "utf16" /\ fEnc' = "utf16" /\ fOut' = fOut
           ELSE fPc' = "chunk" /\ fEnc' = "raw" /\ fOut' = fOut
    /\ UNCHANGED <<fContent, fReadable, fIo, fSt, fView, fRead>>
    /\ UNCHANGED notFile

\* os.ReadFile, decodeUTF16LE, the match loop
DecodeScan ==
    /\ fPc = "utf16"
    /\ \/ fOut' = scanUTF16(fContent, FilePath)
       \/ fIo = "fail" /\ fOut' = <<>>
    /\ fPc' = "done"
    /\ UNCHANGED <<fContent, fReadable, fIo, fEnc, fSt, fView, fRead>>
    /\ UNCHANGED notFile

AddrLenBytes == MinRun + Len(DotOnion)

\* what file.Read may return for a slice of m bytes at the current offset
ReadOutcomes(m) ==
    IF m = 0 THEN { [n |-> 0, err |-> "EOF"] }
    ELSE IF fIo = "short"
    THEN { [n |-> n, err |-> "nil"] :
             n \in { k \in { 1, ChunkOverlap - 1, ChunkOverlap, ChunkOverlap + 1, m } :
                       k <= m } }
    ELSE IF fIo = "fail"
    THEN { [n |-> m, err |-> "nil"] }
         \cup { [n |-> n, err |-> "EIO"] : n \in { k \in { 0, AddrLenBytes, m } : k <= m } }
    ELSE { [n |-> m, err |-> "nil"] }

\* faulty variant: the bytes delivered with a read error are not scanned
ReadChunkDropLast ==
    /\ fPc = "chunk"
    /\ \E r \in ReadOutcomes(Min(ReadCap(fSt.overlap), Len(fContent) - fSt.pos)) :
          /\ fRead' = r
          /\ IF r.n = 0 \/ r.err /= "nil"
             THEN /\ fPc' = "done"
                  /\ fOut' = fSt.results
                  /\ fSt' = [fSt EXCEPT !.pos = @ + r.n]
                  /\ fView' = fView
             ELSE /\ fView' = ChunkView(fSt.overlap, fContent, fSt.pos, r.n)
                  /\ fSt' = ChunkStep(fSt, fContent, r.n, FilePath)
                  /\ fPc' = "chunk"
                  /\ fOut' = fOut
    /\ UNCHANGED <<fContent, fReadable, fIo, fEnc>>
    /\ UNCHANGED notFile

\* one iteration of the loop of scanFileChunked
ReadChunk ==
    /\ fPc = "chunk"
    /\ \E r \in ReadOutcomes(Min(ReadCap(fSt.overlap), Len(fContent) - fSt.pos)) :
          /\ fRead' = r
          /\ IF r.n = 0
             THEN /\ fPc' = "done"
                  /\ fOut' = fSt.results
                  /\ UNCHANGED <<fSt, fView>>
             ELSE LET st == ChunkStep(fSt, fContent, r.n, FilePath)
                  IN  /\ fView' = ChunkView(fSt.overlap, fContent, fSt.pos, r.n)
                      /\ IF r.err /= "nil"
                         THEN /\ fSt' = [st EXCEPT !.overlap = fSt.overlap]
                              /\ fPc' = "done"
                              /\ fOut' = st.results
                         ELSE /\ fSt' = st
                              /\ fPc' = "chunk"
                              /\ fOut' = fOut
    /\ UNCHANGED <<fContent, fReadable, fIo, fEnc>>
    /\ UNCHANGED notFile

FileNext == OpenFile \/ ReadSample \/ DecodeScan \/ ReadChunk

FileSpec == FileInit /\ [][FileNext]_vars

(***************************************************************************)
(* ScanForOnions: the walker (main goroutine), the workers, the progress   *)
(* goroutine                                                               *)
(***************************************************************************)
Excluded == buildExcludedPaths(Root)

\* the entries of the tree being scanned, in walk order
Tree == TreeOf[treeId]

Workers == 1..numWorkers

\* faulty variant: the dedup key is the value alone
DedupKeyValueOnly(value, path) == value

\* "|"
DedupKey(value, path) == value \o <<124>> \o path

\* faulty variant: the seen map is not consulted before the append
RECURSIVE MergeOnionsNoDedup(_, _, _)
MergeOnionsNoDedup(onions, i, acc) ==
    IF i > Len(onions) THEN acc
    ELSE MergeOnionsNoDedup(onions, i + 1,
             [seen    |-> acc.seen \cup {DedupKey(onions[i].Value, onions[i].Path)},
              results |-> Append(acc.results, onions[i])])

\* faulty variant: the dedup key is the value alone
RECURSIVE MergeOnionsByValue(_, _, _)
MergeOnionsByValue(onions, i, acc) ==
    IF i > Len(onions) THEN acc
    ELSE LET key == onions[i].Value
         IN  IF key \notin acc.seen
             THEN MergeOnionsByValue(onions, i + 1,
                      [seen    |-> acc.seen \cup {key},
                       results |-> Append(acc.results, onions[i])])
             ELSE MergeOnionsByValue(onions, i + 1, acc)

\* the merge loop of a worker, under resultsMux
RECURSIVE MergeOnions(_, _, _)
MergeOnions(onions, i, acc) ==
    IF i > Len(onions) THEN acc
    ELSE LET key == DedupKey(onions[i].Value, onions[i].Path)
         IN  IF key \notin acc.seen
             THEN MergeOnions(onions, i + 1,
                      [seen    |-> acc.seen \cup {key},
                       results |-> Append(acc.results, onions[i])])
             ELSE MergeOnions(onions, i + 1, acc)

\* the merge loop of the walk callback for filename matches, under resultsMux
RECURSIVE MergeFilename(_, _, _, _)
MergeFilename(matches, i, path, acc) ==
    IF i > Len(matches) THEN acc
    ELSE LET value == ToLower(matches[i])
             key   == DedupKey(value, path)
         IN  IF isGenericOnion(value)
             THEN MergeFilename(matches, i + 1, path, acc)
             ELSE IF key \notin acc.seen
             THEN MergeFilename(matches, i + 1, path,
                      [seen    |-> acc.seen \cup {key},
                       results |-> Append(acc.results,
                                      [Value |-> value, Path |-> path])])
             ELSE MergeFilename(matches, i + 1, path, acc)

IsUnder(path, dir) == HasPrefix(path, Clean(dir) \o <<47>>)

\* the entry WalkDir visits after entry i when its subtree is skipped
AfterSubtree(tree, i) ==
    LET later == { j \in (i + 1)..Len(tree) :
                     ~IsUnder(tree[j].path, tree[i].path) }
    IN  IF later = {} THEN Len(tree) + 1 ELSE SetMin(later)

\* What the code computes from an entry alone, tabulated once per tree: the
\* exclusion test, the matches in the file name, what scanFile returns for
\* the file, and where WalkDir goes after SkipDir.
PlanOf ==
    [gs \in DOMAIN TreeOf |->
        [i \in 1..Len(TreeOf[gs]) |->
            LET e == TreeOf[gs][i]
            IN  [excluded     |-> isExcludedPath(e.path, Excluded),
                 names        |-> FindAll(Base(e.path)),
                 onions       |-> scanFile(e.content, e.readable, e.path),
                 afterSubtree |-> AfterSubtree(TreeOf[gs], i)]] @@ <<>>] @@ <<>>

Plan == PlanOf[treeId]

\* where the walk goes after the callback returned nil for entry i
AfterEntry(i) == i + 1

\* the callback from "Do not send directories to workers" on: is a job sent?
Dispatches(e) ==
    /\ e.kind /= "dir"
    /\ ~e.infoErr
    /\ e.size <= MaxFileSize

MainPcAt(i) == IF i > Len(Tree) THEN "close" ELSE "visit"

\* what the callback returns to WalkDir for entry e
CallbackReturn(e) ==
    IF e.kind = "walkErr" THEN "nil"
    ELSE IF isExcludedPath(e.path, Excluded) /\ e.kind = "dir" THEN "SkipDir"
    ELSE "nil"

\* what WalkDir returns: the first value the callback returned that is
\* neither nil nor SkipDir, and nil when there is none
WalkDirReturn(tree) ==
    LET bad == { i \in 1..Len(tree) :
                   CallbackReturn(tree[i]) \notin { "nil", "SkipDir" } }
    IN  IF bad = {} THEN "nil" ELSE CallbackReturn(tree[SetMin(bad)])

Init ==
    /\ treeId \in TreeIds
    /\ numWorkers \in { 1, MaxWorkers }
    /\ mPc = "visit"
    /\ wpos = 1
    /\ queue = <<>>
    /\ closed = 0
    /\ results = <<>>
    /\ seen = {}
    /\ mux = MuxFree
    /\ wk = [w \in 1..numWorkers |-> [pc |-> "recv", job |-> 0, onions |-> <<>>]]
    /\ filesProcessed = 0
    /\ pPc = "select"
    /\ doneClosed = FALSE
    /\ enq = [i \in 1..Len(Tree) |-> 0]
    /\ deq = [i \in 1..Len(Tree) |-> 0]
    /\ merged = [i \in 1..Len(Tree) |-> 0]
    /\ ret = <<>>
    /\ FileIdle
    /\ DetectIdle
    /\ ExclIdle
    /\ CliIdle

\* faulty variant: the file name is not matched against the pattern
WalkVisitNoNames ==
    /\ mPc = "visit"
    /\ LET e == Tree[wpos]
       IN  IF e.kind = "walkErr"
           THEN wpos' = AfterEntry(wpos) /\ mPc' = MainPcAt(AfterEntry(wpos))
           ELSE IF Plan[wpos].excluded
           THEN LET nxt == IF e.kind = "dir" THEN Plan[wpos].afterSubtree
                           ELSE AfterEntry(wpos)
                IN  wpos' = nxt /\ mPc' = MainPcAt(nxt)
           ELSE IF Dispatches(e)
           THEN wpos' = wpos /\ mPc' = "send"
           ELSE wpos' = AfterEntry(wpos) /\ mPc' = MainPcAt(AfterEntry(wpos))
    /\ UNCHANGED <<treeId, numWorkers, queue, closed, results, seen, mux, wk,
                   filesProcessed, pPc, doneClosed, enq, deq, merged, ret>>
    /\ UNCHANGED notPipe

\* the walk callback up to the filename match
WalkVisit ==
    /\ mPc = "visit"
    /\ LET e == Tree[wpos]
       IN  IF e.kind = "walkErr"
           THEN wpos' = AfterEntry(wpos) /\ mPc' = MainPcAt(AfterEntry(wpos))
           ELSE IF Plan[wpos].excluded
           THEN LET nxt == IF e.kind = "dir" THEN Plan[wpos].afterSubtree
                           ELSE AfterEntry(wpos)
                IN  wpos' = nxt /\ mPc' = MainPcAt(nxt)
           ELSE IF Len(Plan[wpos].names) > 0
           THEN wpos' = wpos /\ mPc' = "lock"
           ELSE IF Dispatches(e)
           THEN wpos' = wpos /\ mPc' = "send"
           ELSE wpos' = AfterEntry(wpos) /\ mPc' = MainPcAt(AfterEntry(wpos))
    /\ UNCHANGED <<treeId, numWorkers, queue, closed, results, seen, mux, wk,
                   filesProcessed, pPc, doneClosed, enq, deq, merged, ret>>
    /\ UNCHANGED notPipe

\* resultsMux.Lock() in the walk callback
WalkLock ==
    /\ mPc = "lock"
    /\ mux = MuxFree
    /\ mux' = MuxHeld("walker", 0)
    /\ mPc' = "merge"
    /\ UNCHANGED <<treeId, numWorkers, wpos, queue, closed, results, seen, wk,
                   filesProcessed, pPc, doneClosed, enq, deq, merged, ret>>
    /\ UNCHANGED notPipe

\* the filename merge, resultsMux.Unlock(), and the rest of the callback
WalkMerge ==
    /\ mPc = "merge"
    /\ mux = MuxHeld("walker", 0)
    /\ LET e   == Tree[wpos]
           acc == MergeFilename(Plan[wpos].names, 1, e.path,
                                [seen |-> seen, results |-> results])
       IN  /\ seen' = acc.seen
           /\ results' = acc.results
           /\ IF Dispatches(e)
              THEN wpos' = wpos /\ mPc' = "send"
              ELSE wpos' = AfterEntry(wpos) /\ mPc' = MainPcAt(AfterEntry(wpos))
    /\ mux' = MuxFree
    /\ UNCHANGED <<treeId, numWorkers, queue, closed, wk, filesProcessed, pPc,
                   doneClosed, enq, deq, merged, ret>>
    /\ UNCHANGED notPipe

\* faulty variant: the send does not wait for room in the channel buffer
WalkSendUnbounded ==
    /\ mPc = "send"
    /\ closed = 0
    /\ queue' = Append(queue, wpos)
    /\ enq' = [enq EXCEPT ![wpos] = @ + 1]
    /\ wpos' = AfterEntry(wpos)
    /\ mPc' = MainPcAt(AfterEntry(wpos))
    /\ UNCHANGED <<treeId, numWorkers, closed, results, seen, mux, wk,
                   filesProcessed, pPc, doneClosed, deq, merged, ret>>
    /\ UNCHANGED notPipe

\* jobs <- FileJob{...}: blocks while the channel buffer is full
WalkSend ==
    /\ mPc = "send"
    /\ Len(queue) < QueueCap
    /\ closed = 0
    /\ queue' = Append(queue, wpos)
    /\ enq' = [enq EXCEPT ![wpos] = @ + 1]
    /\ wpos' = AfterEntry(wpos)
    /\ mPc' = MainPcAt(AfterEntry(wpos))
    /\ UNCHANGED <<treeId, numWorkers, closed, results, seen, mux, wk,
                   filesProcessed, pPc, doneClosed, deq, merged, ret>>
    /\ UNCHANGED notPipe

\* faulty variant: the channel is not closed after the walk
MainCloseNoClose ==
    /\ mPc = "close"
    /\ closed' = closed
    /\ mPc' = "wait"
    /\ UNCHANGED <<treeId, numWorkers, wpos, queue, results, seen, mux, wk,
                   filesProcessed, pPc, doneClosed, enq, deq, merged, ret>>
    /\ UNCHANGED notPipe

\* close(jobs)
MainClose ==
    /\ mPc = "close"
    /\ closed' = closed + 1
    /\ mPc' = "wait"
    /\ UNCHANGED <<treeId, numWorkers, wpos, queue, results, seen, mux, wk,
                   filesProcessed, pPc, doneClosed, enq, deq, merged, ret>>
    /\ UNCHANGED notPipe

\* faulty variant: wg.Wait() is missing
MainWaitNoWait ==
    /\ mPc = "wait"
    /\ doneClosed' = TRUE
    /\ mPc' = "return"
    /\ UNCHANGED <<treeId, numWorkers, wpos, queue, closed, results, seen, mux,
                   wk, filesProcessed, pPc, enq, deq, merged, ret>>
    /\ UNCHANGED notPipe

\* wg.Wait(), close(done)
MainWait ==
    /\ mPc = "wait"
    /\ \A w \in Workers : wk[w].pc = "exited"
    /\ doneClosed' = TRUE
    /\ mPc' = "return"
    /\ UNCHANGED <<treeId, numWorkers, wpos, queue, closed, results, seen, mux,
                   wk, filesProcessed, pPc, enq, deq, merged, ret>>
    /\ UNCHANGED notPipe

\* the summary and the return
MainReturn ==
    /\ mPc = "return"
    /\ ret' = <<[results |-> results, files |-> filesProcessed,
                 err |-> WalkDirReturn(Tree)]>>
    /\ mPc' = "returned"
    /\ UNCHANGED <<treeId, numWorkers, wpos, queue, closed, results, seen, mux,
                   wk, filesProcessed, pPc, doneClosed, enq, deq, merged>>
    /\ UNCHANGED notPipe

\* faulty variant: the job is read but stays in the channel
WorkerRecvPeek(w) ==
    /\ wk[w].pc = "recv"
    /\ queue /= <<>>
    /\ wk' = [wk EXCEPT ![w] = [pc |-> "scan", job |-> Head(queue), onions |-> <<>>]]
    /\ queue' = queue
    /\ deq' = [deq EXCEPT ![Head(queue)] = @ + 1]
    /\ UNCHANGED <<treeId, numWorkers, mPc, wpos, closed, results, seen, mux,
                   filesProcessed, pPc, doneClosed, enq, merged, ret>>
    /\ UNCHANGED notPipe

\* for job := range jobs: a job is received
WorkerRecv(w) ==
    /\ wk[w].pc = "recv"
    /\ queue /= <<>>
    /\ wk' = [wk EXCEPT ![w] = [pc |-> "scan", job |-> Head(queue), onions |-> <<>>]]
    /\ queue' = Tail(queue)
    /\ deq' = [deq EXCEPT ![Head(queue)] = @ + 1]
    /\ UNCHANGED <<treeId, numWorkers, mPc, wpos, closed, results, seen, mux,
                   filesProcessed, pPc, doneClosed, enq, merged, ret>>
    /\ UNCHANGED notPipe

\* for job := range jobs: the channel is closed and drained; wg.Done()
WorkerExit(w) ==
    /\ wk[w].pc = "recv"
    /\ queue = <<>>
    /\ closed > 0
    /\ wk' = [wk EXCEPT ![w].pc = "exited"]
    /\ UNCHANGED <<treeId, numWorkers, mPc, wpos, queue, closed, results, seen,
                   mux, filesProcessed, pPc, doneClosed, enq, deq,
                   merged, ret>>
    /\ UNCHANGED notPipe

\* faulty variant: the counter is not incremented
WorkerScanNoCount(w) ==
    /\ wk[w].pc = "scan"
    /\ wk' = [wk EXCEPT ![w].pc = "lock", ![w].onions = Plan[wk[w].job].onions]
    /\ filesProcessed' = filesProcessed
    /\ UNCHANGED <<treeId, numWorkers, mPc, wpos, queue, closed, results, seen,
                   mux, pPc, doneClosed, enq, deq, merged, ret>>
    /\ UNCHANGED notPipe

\* onions := scanFile(job.Path); atomic.AddUint64(&filesProcessed, 1)
WorkerScan(w) ==
    /\ wk[w].pc = "scan"
    /\ wk' = [wk EXCEPT ![w].pc = "lock", ![w].onions = Plan[wk[w].job].onions]
    /\ filesProcessed' = filesProcessed + 1
    /\ UNCHANGED <<treeId, numWorkers, mPc, wpos, queue, closed, results, seen,
                   mux, pPc, doneClosed, enq, deq, merged, ret>>
    /\ UNCHANGED notPipe

\* faulty variant: the merge does not wait for resultsMux
WorkerLockNoWait(w) ==
    /\ wk[w].pc = "lock"
    /\ mux' = MuxHeld("worker", w)
    /\ wk' = [wk EXCEPT ![w].pc = "merge"]
    /\ UNCHANGED <<treeId, numWorkers, mPc, wpos, queue, closed, results, seen,
                   filesProcessed, pPc, doneClosed, enq, deq, merged, ret>>
    /\ UNCHANGED notPipe

\* resultsMux.Lock() in a worker
WorkerLock(w) ==
    /\ wk[w].pc = "lock"
    /\ mux = MuxFree
    /\ mux' = MuxHeld("worker", w)
    /\ wk' = [wk EXCEPT ![w].pc = "merge"]
    /\ UNCHANGED <<treeId, numWorkers, mPc, wpos, queue, closed, results, seen,
                   filesProcessed, pPc, doneClosed, enq, deq, merged, ret>>
    /\ UNCHANGED notPipe

\* the merge loop and resultsMux.Unlock()
WorkerMerge(w) ==
    /\ wk[w].pc = "merge"
    /\ mux = MuxHeld("worker", w)
    /\ LET acc == MergeOnions(wk[w].onions, 1, [seen |-> seen, results |-> results])
       IN  seen' = acc.seen /\ results' = acc.results
    /\ mux' = MuxFree
    /\ merged' = [merged EXCEPT ![wk[w].job] = @ + 1]
    /\ wk' = [wk EXCEPT ![w] = [pc |-> "recv", job |-> 0, onions |-> <<>>]]
    /\ UNCHANGED <<treeId, numWorkers, mPc, wpos, queue, closed, filesProcessed,
                   pPc, doneClosed, enq, deq, ret>>
    /\ UNCHANGED notPipe

\* case <-ticker.C
ProgTick ==
    /\ pPc = "select"
    /\ pPc' = "lock"
    /\ UNCHANGED <<treeId, numWorkers, mPc, wpos, queue, closed, results, seen,
                   mux, wk, filesProcessed, doneClosed, enq, deq, merged, ret>>
    /\ UNCHANGED notPipe

\* resultsMux.Lock() in the progress goroutine
ProgLock ==
    /\ pPc = "lock"
    /\ mux = MuxFree
    /\ mux' = MuxHeld("progress", 0)
    /\ pPc' = "read"
    /\ UNCHANGED <<treeId, numWorkers, mPc, wpos, queue, closed, results, seen,
                   wk, filesProcessed, doneClosed, enq, deq, merged, ret>>
    /\ UNCHANGED notPipe

\* onionCount := len(results); resultsMux.Unlock(); the progress line
ProgRead ==
    /\ pPc = "read"
    /\ mux = MuxHeld("progress", 0)
    /\ mux' = MuxFree
    /\ pPc' = "select"
    /\ UNCHANGED <<treeId, numWorkers, mPc, wpos, queue, closed, results, seen,
                   wk, filesProcessed, doneClosed, enq, deq, merged, ret>>
    /\ UNCHANGED notPipe

\* faulty variant: the select has no case for done
ProgStopIgnored ==
    /\ pPc = "select"
    /\ doneClosed
    /\ pPc' = "select"
    /\ UNCHANGED <<treeId, numWorkers, mPc, wpos, queue, closed, results, seen,
                   mux, wk, filesProcessed, doneClosed, enq, deq,
                   merged, ret>>
    /\ UNCHANGED notPipe

\* case <-done
ProgStop ==
    /\ pPc = "select"
    /\ doneClosed
    /\ pPc' = "stopped"
    /\ UNCHANGED <<treeId, numWorkers, mPc, wpos, queue, closed, results, seen,
                   mux, wk, filesProcessed, doneClosed, enq, deq,
                   merged, ret>>
    /\ UNCHANGED notPipe

Next ==
    \/ WalkVisit \/ WalkLock \/ WalkMerge \/ WalkSend
    \/ MainClose \/ MainWait \/ MainReturn
    \/ \E w \in Workers :
          \/ WorkerRecv(w) \/ WorkerExit(w) \/ WorkerScan(w)
          \/ WorkerLock(w) \/ WorkerMerge(w)
    \/ ProgTick \/ ProgLock \/ ProgRead \/ ProgStop

Spec == Init /\ [][Next]_vars

\* the steps of the main goroutine, of worker w, of the progress goroutine
MainStep ==
    WalkVisit \/ WalkLock \/ WalkMerge \/ WalkSend \/ MainClose \/ MainWait \/ MainReturn

WorkerStep(w) ==
    /\ w \in Workers
    /\ \/ WorkerRecv(w) \/ WorkerExit(w) \/ WorkerScan(w)
       \/ WorkerLock(w) \/ WorkerMerge(w)

ProgStep == ProgLock \/ ProgRead \/ ProgStop

\* Fair scheduling. A goroutine that can take a step again and again takes
\* one: a running goroutine is scheduled, Lock() comes back for whoever keeps
\* asking (sync.Mutex hands the lock to a waiter that starves), and the
\* goroutines waiting on a channel are served in arrival order; hence strong
\* fairness for the main goroutine and the workers. The progress goroutine
\* never waits for long once it asks for the lock, and its select picks
\* among the ready cases at random, hence strong fairness for the done
\* case. The ticker need not fire at all.
Fairness ==
    /\ SF_vars(MainStep)
    /\ \A w \in 1..MaxWorkers : SF_vars(WorkerStep(w))
    /\ WF_vars(ProgStep)
    /\ SF_vars(ProgStop)

\* the groups whose entries differ in their way through the pipeline: a file
\* name merge and a job, a directory with two jobs, a job alone, entries
\* that are not sent and a failing ReadDir
FairGroups == { "name", "sub", "lnk", "skip" }

FairInit == Init /\ (treeId \subseteq FairGroups \/ treeId = {"gone"})

FairSpec == FairInit /\ [][Next]_vars /\ Fairness

(***************************************************************************)
(* internal/mountlog.go: the mount log of the day                          *)
(***************************************************************************)
\* "Device:", "Image was dismounted"
PrefixDevice == <<68, 101, 118, 105, 99, 101, 58>>

PrefixDismounted ==
    <<73, 109, 97, 103, 101, 32, 119, 97, 115, 32, 100, 105, 115, 109, 111,
      117, 110, 116, 101, 100>>

\* "Image: ", "Mount point: ",
\* "[!] Image will remain mounted (--keep-mounted enabled)"
TextImage == <<73, 109, 97, 103, 101, 58, 32>>

TextMountPoint == <<77, 111, 117, 110, 116, 32, 112, 111, 105, 110, 116, 58, 32>>

TextKeep ==
    <<91, 33, 93, 32, 73, 109, 97, 103, 101, 32, 119, 105, 108, 108, 32, 114,
      101, 109, 97, 105, 110, 32, 109, 111, 117, 110, 116, 101, 100, 32, 40,
      45, 45, 107, 101, 101, 112, 45, 109, 111, 117, 110, 116, 101, 100, 32,
      101, 110, 97, 98, 108, 101, 100, 41>>

\* time.Now().Format("2006-01-02 15:04:05"): "2026-11-05 03:00:00"
Stamp ==
    <<50, 48, 50, 54, 45, 49, 49, 45, 48, 53, 32, 48, 51, 58, 48, 48, 58, 48, 48>>

NewLine == <<10>>

\* what LogMount appends to the log file
MountText(image, device, mountPoint, keepMounted) ==
    <<91>> \o Stamp \o <<93>> \o NewLine
    \o TextImage \o image \o NewLine
    \o PrefixDevice \o <<32>> \o device \o NewLine
    \o TextMountPoint \o mountPoint \o NewLine
    \o (IF keepMounted THEN TextKeep \o NewLine ELSE <<>>)

\* what LogDismount appends to the log file
DismountText ==
    PrefixDismounted \o <<32, 58, 32>> \o Stamp \o NewLine \o NewLine

\* strings.Split(s, "\n"): the texts between the line feeds, the text
\* before the first and the text after the last included
SplitLines(data) ==
    LET nl     == { i \in 1..Len(data) : data[i] = 10 }
        cut(k) == IF k = 0 THEN 0
                  ELSE IF k > Cardinality(nl) THEN Len(data) + 1
                  ELSE CHOOSE i \in nl : Cardinality({ j \in nl : j < i }) = k - 1
    IN  [k \in 1..(Cardinality(nl) + 1) |->
            SubSeq(data, cut(k - 1) + 1, cut(k) - 1)]

IsSpace(b) == b \in { 9, 10, 11, 12, 13, 32 }

\* strings.TrimSpace: from the first to the last byte that is no white space
TrimSpace(s) ==
    LET keep == { i \in 1..Len(s) : ~IsSpace(s[i]) }
    IN  IF keep = {} THEN <<>>
        ELSE SubSeq(s, SetMin(keep), CHOOSE i \in keep : \A j \in keep : j <= i)

\* strings.TrimPrefix
TrimPrefix(s, p) == IF HasPrefix(s, p) THEN SubSeq(s, Len(p) + 1, Len(s)) ELSE s

\* faulty variant: the dismount lines are not looked at
RECURSIVE LastDeviceNoDismount(_, _, _)
LastDeviceNoDismount(lines, i, st) ==
    IF i > Len(lines) THEN st
    ELSE LET line == TrimSpace(lines[i])
         IN  LastDeviceNoDismount(lines, i + 1,
                 IF HasPrefix(line, PrefixDevice)
                 THEN [lastDevice |-> TrimSpace(TrimPrefix(line, PrefixDevice)),
                       dismounted |-> FALSE]
                 ELSE st)

\* the loop of GetLastMountedDevice over the lines
RECURSIVE LastDevice(_, _, _)
LastDevice(lines, i, st) ==
    IF i > Len(lines) THEN st
    ELSE LET line == TrimSpace(lines[i])
             s1   == IF HasPrefix(line, PrefixDevice)
                     THEN [lastDevice |-> TrimSpace(TrimPrefix(line, PrefixDevice)),
                           dismounted |-> FALSE]
                     ELSE st
             s2   == IF HasPrefix(line, PrefixDismounted)
                     THEN [s1 EXCEPT !.dismounted = TRUE]
                     ELSE s1
         IN  LastDevice(lines, i + 1, s2)

\* faulty variant: a logged dismount does not count
GetLastMountedDeviceNoDismount(exists, data) ==
    IF ~exists THEN [device |-> <<>>, err |-> "readFile"]
    ELSE LET st == LastDeviceNoDismount(SplitLines(data), 1,
                       [lastDevice |-> <<>>, dismounted |-> FALSE])
         IN  IF st.lastDevice = <<>>
             THEN [device |-> <<>>, err |-> "no mounted device found in log"]
             ELSE [device |-> st.lastDevice, err |-> "nil"]

\* GetLastMountedDevice on the log file: exists says whether the file is
\* there, data is its content
GetLastMountedDevice(exists, data) ==
    IF ~exists THEN [device |-> <<>>, err |-> "readFile"]
    ELSE LET st == LastDevice(SplitLines(data), 1,
                       [lastDevice |-> <<>>, dismounted |-> FALSE])
         IN  IF st.lastDevice = <<>>
             THEN [device |-> <<>>, err |-> "no mounted device found in log"]
             ELSE IF st.dismounted
             THEN [device |-> <<>>, err |-> "last device already dismounted"]
             ELSE [device |-> st.lastDevice, err |-> "nil"]

\* the states of the log file after LogMount: the text is appended (the
\* file is created if need be), or MkdirAll or OpenFile fails
AfterLogMount(exists, data, hist, image, device, mountPoint, keepMounted) ==
    { [exists |-> TRUE,
       data   |-> data \o MountText(image, device, mountPoint, keepMounted),
       hist   |-> Append(hist, [op |-> "mount", device |-> device]),
       err    |-> "nil"],
      [exists |-> exists, data |-> data, hist |-> hist, err |-> "open"] }

\* the states of the log file after LogDismount: OpenFile without O_CREATE
\* fails when the file is not there
AfterLogDismount(exists, data, hist) ==
    (IF exists
     THEN { [exists |-> TRUE, data |-> data \o DismountText,
             hist |-> Append(hist, [op |-> "dismount", device |-> <<>>]),
             err |-> "nil"] }
     ELSE {})
    \cup { [exists |-> exists, data |-> data, hist |-> hist, err |-> "open"] }

(***************************************************************************)
(* main.go: the runs of the program, one after the other, on one day       *)
(***************************************************************************)
MaxRuns == 3

\* "C:\a.E01", "E:\", the device numbers "000000" and "000001"
ImagePath == <<67, 58, 92, 97, 46, 69, 48, 49>>

MountPointE == <<69, 58, 92>>

Devices == { <<48, 48, 48, 48, 48, 48>>, <<48, 48, 48, 48, 48, 49>> }

\* the command lines: --dismount, or [--keep-mounted] with no argument, a
\* path that is not there, a directory, a file that is no E01, an E01 image
ArgSet ==
    { [dismount |-> TRUE, keep |-> FALSE, input |-> "none"] }
    \cup { [dismount |-> FALSE, keep |-> k, input |-> i] :
             k \in BOOLEAN, i \in { "none", "missing", "dir", "notE01", "e01" } }

\* the number of mounts logged so far: the last one is the one
\* GetLastMountedDevice speaks of
MountCount(hist) == Cardinality({ i \in 1..Len(hist) : hist[i].op = "mount" })

CliInit ==
    /\ cLog = <<>>
    /\ cLogExists = FALSE
    /\ cHist = <<>>
    /\ cPc = "idle"
    /\ cArgs = NoArgs
    /\ cDev = <<>>
    /\ cMounted = FALSE
    /\ cDeferred = FALSE
    /\ cCalls = <<>>
    /\ cEnd = "none"
    /\ cPrev = NoRequest
    /\ cCur = NoRequest
    /\ cRun = 0
    /\ FileIdle
    /\ PipeIdle
    /\ DetectIdle
    /\ ExclIdle

\* a run starts: the flags, the argument, filepath.Abs, os.Stat, the suffix
MainStart ==
    /\ cPc \in { "idle", "exited" }
    /\ cRun < MaxRuns
    /\ \E a \in ArgSet :
          /\ cArgs' = a
          /\ cCur' = [kind   |-> IF a.dismount THEN "dismount" ELSE "scan",
                      mount  |-> 0,
                      logged |-> FALSE]
          /\ IF a.dismount THEN cPc' = "getLast" /\ cEnd' = "none"
             ELSE IF a.input = "none" THEN cPc' = "exit" /\ cEnd' = "usage"
             ELSE IF a.input = "missing" THEN cPc' = "exit" /\ cEnd' = "statErr"
             ELSE IF a.input = "notE01" THEN cPc' = "exit" /\ cEnd' = "notE01"
             ELSE IF a.input = "dir" THEN cPc' = "scan" /\ cEnd' = "none"
             ELSE cPc' = "mount" /\ cEnd' = "none"
    /\ cPrev' = cCur
    /\ cRun' = cRun + 1
    /\ cDev' = <<>>
    /\ cMounted' = FALSE
    /\ cDeferred' = FALSE
    /\ cCalls' = <<>>
    /\ UNCHANGED <<cLog, cLogExists, cHist>>
    /\ UNCHANGED notCli

\* --dismount: GetLastMountedDevice
MainGetLast ==
    /\ cPc = "getLast"
    /\ LET r == GetLastMountedDevice(cLogExists, cLog)
       IN  IF r.err /= "nil"
           THEN cPc' = "exit" /\ cEnd' = "noDevice" /\ cDev' = cDev
           ELSE cPc' = "dismount" /\ cEnd' = cEnd /\ cDev' = r.device
    /\ UNCHANGED <<cLog, cLogExists, cHist, cArgs, cMounted, cDeferred, cCalls,
                   cPrev, cCur, cRun>>
    /\ UNCHANGED notCli

\* --dismount: Dismount(device), and LogDismount when it worked
MainDismount ==
    /\ cPc = "dismount"
    /\ cCalls' = Append(cCalls, cDev)
    /\ \/ /\ cEnd' = "dismountErr"
          /\ cCur' = [cCur EXCEPT !.mount = MountCount(cHist)]
          /\ UNCHANGED <<cLog, cLogExists, cHist>>
       \/ \E f \in AfterLogDismount(cLogExists, cLog, cHist) :
             /\ cEnd' = "dismounted"
             /\ cCur' = [cCur EXCEPT !.mount = MountCount(cHist),
                                     !.logged = (f.err = "nil")]
             /\ cLog' = f.data
             /\ cLogExists' = f.exists
             /\ cHist' = f.hist
    /\ cPc' = "exit"
    /\ UNCHANGED <<cArgs, cDev, cMounted, cDeferred, cPrev, cRun>>
    /\ UNCHANGED notCli

\* MountE01 and LogMount
MainMount ==
    /\ cPc = "mount"
    /\ \/ /\ cPc' = "exit"
          /\ cEnd' = "mountErr"
          /\ UNCHANGED <<cLog, cLogExists, cHist, cDev, cMounted>>
       \/ \E d \in Devices :
             \E f \in AfterLogMount(cLogExists, cLog, cHist, ImagePath, d,
                                    MountPointE, cArgs.keep) :
                /\ cDev' = d
                /\ cMounted' = TRUE
                /\ cLog' = f.data
                /\ cLogExists' = f.exists
                /\ cHist' = f.hist
                /\ cPc' = "scan"
                /\ cEnd' = cEnd
    /\ UNCHANGED <<cArgs, cDeferred, cCalls, cPrev, cCur, cRun>>
    /\ UNCHANGED notCli

\* the trees ScanForOnions may be given
ScanErrs == { WalkDirReturn(TreeOf[gs]) : gs \in TreeIds }

\* the deferred dismount is registered; ScanForOnions
MainScan ==
    /\ cPc = "scan"
    /\ cDeferred' = (cMounted /\ ~cArgs.keep)
    /\ \E err \in ScanErrs :
          IF err /= "nil"
          THEN cPc' = "exit" /\ cEnd' = "scanErr"
          ELSE cPc' = "report" /\ cEnd' = cEnd
    /\ UNCHANGED <<cLog, cLogExists, cHist, cArgs, cDev, cMounted, cCalls,
                   cPrev, cCur, cRun>>
    /\ UNCHANGED notCli

\* WriteOnionReport
MainReport ==
    /\ cPc = "report"
    /\ \/ cPc' = "exit" /\ cEnd' = "reportErr"
       \/ cPc' = "tor" /\ cEnd' = cEnd
    /\ UNCHANGED <<cLog, cLogExists, cHist, cArgs, cDev, cMounted, cDeferred,
                   cCalls, cPrev, cCur, cRun>>
    /\ UNCHANGED notCli

\* faulty variant: the program exits on the spot when Tor is not there
MainTorFatal ==
    /\ cPc = "tor"
    /\ \/ cPc' = "exited" /\ cEnd' = "torErr"
       \/ cPc' = "check" /\ cEnd' = cEnd
    /\ UNCHANGED <<cLog, cLogExists, cHist, cArgs, cDev, cMounted, cDeferred,
                   cCalls, cPrev, cCur, cRun>>
    /\ UNCHANGED notCli

\* the wait and tor.CheckTorAvailable
MainTor ==
    /\ cPc = "tor"
    /\ \/ cPc' = "exit" /\ cEnd' = "torErr"
       \/ cPc' = "check" /\ cEnd' = cEnd
    /\ UNCHANGED <<cLog, cLogExists, cHist, cArgs, cDev, cMounted, cDeferred,
                   cCalls, cPrev, cCur, cRun>>
    /\ UNCHANGED notCli

\* tor.CheckOnions
MainCheck ==
    /\ cPc = "check"
    /\ \/ cPc' = "exit" /\ cEnd' = "checkErr"
       \/ cPc' = "results" /\ cEnd' = cEnd
    /\ UNCHANGED <<cLog, cLogExists, cHist, cArgs, cDev, cMounted, cDeferred,
                   cCalls, cPrev, cCur, cRun>>
    /\ UNCHANGED notCli

\* tor.WriteResultsTable
MainResults ==
    /\ cPc = "results"
    /\ cPc' = "exit"
    /\ cEnd' \in { "resultsErr", "success" }
    /\ UNCHANGED <<cLog, cLogExists, cHist, cArgs, cDev, cMounted, cDeferred,
                   cCalls, cPrev, cCur, cRun>>
    /\ UNCHANGED notCli

\* main returns: the deferred function, if one was registered
MainExit ==
    /\ cPc = "exit"
    /\ IF cDeferred
       THEN /\ cCalls' = Append(cCalls, cDev)
            /\ \/ UNCHANGED <<cLog, cLogExists, cHist>>
               \/ \E f \in AfterLogDismount(cLogExists, cLog, cHist) :
                     /\ cLog' = f.data
                     /\ cLogExists' = f.exists
                     /\ cHist' = f.hist
       ELSE UNCHANGED <<cLog, cLogExists, cHist, cCalls>>
    /\ cPc' = "exited"
    /\ UNCHANGED <<cArgs, cDev, cMounted, cDeferred, cEnd, cPrev, cCur, cRun>>
    /\ UNCHANGED notCli

CliNext ==
    \/ MainStart \/ MainGetLast \/ MainDismount \/ MainMount \/ MainScan
    \/ MainReport \/ MainTor \/ MainCheck \/ MainResults \/ MainExit

CliSpec == CliInit /\ [][CliNext]_vars
(***************************************************************************)
(* Properties                                                              *)
(***************************************************************************)
Pairs(rs) == { <<rs[i].Value, rs[i].Path>> : i \in 1..Len(rs) }

Values(rs) == { rs[i].Value : i \in 1..Len(rs) }

Entries == 1..Len(Tree)

PathName == Join(Root, AddrUpper)

Returned == mPc = "returned"

\* C1: in every reachable state of a scan the shared result collection holds
\* no two records with the same (value, path) pair; a value found in a file's
\* name and in its content is recorded once.
C1_NoDuplicatePair ==
    \A i, j \in 1..Len(results) :
        (results[i].Value = results[j].Value /\ results[i].Path = results[j].Path)
            => i = j

\* the file named AAAAAA.ONION holds aaaaaa.onion too: both merges are done
\* and the pair is there once
C1_Witness ==
    /\ Returned
    /\ "name" \in treeId
    /\ <<AddrA, PathName>> \in Pairs(scanFile(ContentRaw, TRUE, PathName))
    /\ ToLower(Base(PathName)) = AddrA
    /\ Cardinality({ i \in 1..Len(results) :
                       results[i] = [Value |-> AddrA, Path |-> PathName] }) = 1

\* the address pattern, case-sensitively: lower-case letters and 2-7, at
\* least MinRun of them, then ".onion"
IsAddress(v) ==
    /\ Len(v) >= MinRun + Len(DotOnion)
    /\ SubSeq(v, Len(v) - Len(DotOnion) + 1, Len(v)) = DotOnion
    /\ \A k \in 1..(Len(v) - Len(DotOnion)) : IsLowerAZ(v[k]) \/ IsDigit27(v[k])

ExpectedPairs ==
    UNION { { <<ToLower(m), Tree[i].path>> :
                m \in { x \in Range(FindAll(Base(Tree[i].path))) :
                          ~isGenericOnion(x) } }
            \cup (IF Dispatches(Tree[i])
                  THEN Pairs(scanFile(Tree[i].content, Tree[i].readable,
                                      Tree[i].path))
                  ELSE {}) :
            i \in { k \in Entries : /\ Tree[k].kind /= "walkErr"
                                    /\ ~isExcludedPath(Tree[k].path, Excluded) } }

\* C3: for a fixed tree the set of (value, path) pairs ScanForOnions returns
\* is the same for every worker count and every scheduling.
C3_Deterministic ==
    Returned => Pairs(ret[1].results) = ExpectedPairs

C3_Witness ==
    /\ Returned
    /\ numWorkers = MaxWorkers
    /\ Cardinality({ i \in Entries : merged[i] > 0 }) >= 3
    /\ Cardinality(Pairs(ret[1].results)) >= 3

InQueue(i) == Cardinality({ k \in 1..Len(queue) : queue[k] = i })

Holders(i) == { w \in Workers : wk[w].job = i }

WalkEnded == wpos > Len(Tree)

C4_State ==
    /\ closed <= 1
    /\ closed > 0 => WalkEnded
    /\ Returned =>
          /\ closed = 1
          /\ \A w \in Workers : wk[w].pc = "exited"
          /\ queue = <<>>
          /\ \A i \in Entries :
                /\ deq[i] = enq[i]
                /\ merged[i] = enq[i]
                /\ enq[i] > 0 =>
                      Pairs(scanFile(Tree[i].content, Tree[i].readable,
                                     Tree[i].path))
                          \subseteq Pairs(ret[1].results)

\* C4: the job queue is closed once, after the walk has ended, and no job is
\* submitted after the close; ScanForOnions returns after every worker has
\* exited, with every enqueued job scanned and merged into what it returns.
C4_CloseThenDrain ==
    /\ []C4_State
    /\ [][closed > 0 => (enq' = enq /\ closed' = closed)]_vars

C4_Witness ==
    /\ Returned
    /\ numWorkers >= 2
    /\ Cardinality({ i \in Entries : enq[i] > 0 }) >= 3
    /\ Len(ret[1].results) >= 3

\* C5: every enqueued job is dequeued and scanned exactly once, by exactly
\* one worker: none is scanned by two workers, none is dropped.
C5_ExactlyOnce ==
    \A i \in Entries :
        /\ enq[i] = deq[i] + InQueue(i)
        /\ deq[i] <= 1
        /\ deq[i] = merged[i] + Cardinality(Holders(i))
        /\ Cardinality(Holders(i)) <= 1
        /\ Returned => (deq[i] = enq[i] /\ merged[i] = enq[i])

\* two workers each took jobs, and every job was taken once
C5_Witness ==
    /\ Returned
    /\ numWorkers = 2
    /\ filesProcessed >= 3
    /\ \A i \in Entries : enq[i] > 0 => deq[i] = 1

\* C6: a job is enqueued only for a regular file of at most 500 MiB whose
\* metadata can be read; directories, larger files, entries without metadata
\* and non-regular entries are never enqueued.
C6_OnlyRegularFiles ==
    \A i \in Entries :
        enq[i] > 0 =>
            /\ Tree[i].kind = "regular"
            /\ Tree[i].size <= MaxFileSize
            /\ ~Tree[i].infoErr

\* an entry is one of the excluded directories of the root or lies beneath
\* one, names compared without regard to case
UnderExcludedSubtree(path) ==
    \E k \in 1..Len(Excluded) :
        \/ ToLower(Clean(path)) = ToLower(Excluded[k])
        \/ IsUnder(ToLower(Clean(path)), ToLower(Excluded[k]))

\* the paths of the candidate entries that lie in an excluded subtree
ExcludedPaths ==
    { Universe[i].e.path :
        i \in { k \in 1..Len(Universe) : UnderExcludedSubtree(Universe[k].e.path) } }

Visiting == mPc \in { "visit", "lock", "merge", "send" }

\* C7: for an entry under an excluded subtree no job is enqueued and no
\* record with its path appears; an excluded directory is not recursed into.
C7_ExcludedUntouched ==
    /\ \A i \in Entries :
          Tree[i].path \in ExcludedPaths =>
              /\ enq[i] = 0
              /\ \A k \in 1..Len(results) : results[k].Path /= Tree[i].path
    /\ Visiting =>
          ~\E i \in Entries :
              /\ i /= wpos
              /\ Tree[i].path \in ExcludedPaths
              /\ IsUnder(Tree[wpos].path, Tree[i].path)

\* the walk passed WINDOWS and its file bbbbbb.onion, and found other records
C7_Witness ==
    /\ Returned
    /\ "win" \in treeId
    /\ \E i \in Entries :
          /\ IsUnder(Tree[i].path, DirWINDOWS)
          /\ Len(FindAll(Base(Tree[i].path))) > 0
          /\ Len(scanFile(Tree[i].content, Tree[i].readable, Tree[i].path)) > 0
    /\ Len(results) > 0
(***************************************************************************)
(* Properties of one file scan                                             *)
(***************************************************************************)
AddrLen == AddrLenBytes

\* an address of exactly MinRun characters plus ".onion" starts at offset p
\* (0-based) of c, with no address byte before it or after it
OccursAt(c, p) ==
    /\ p + AddrLen <= Len(c)
    /\ \A k \in 1..MinRun : IsBase32(c[p + k])
    /\ SuffixAt(c, p + MinRun + 1)
    /\ p > 0 => ~isValidOnionChar(c[p])
    /\ p + AddrLen < Len(c) => ~isValidOnionChar(c[p + AddrLen + 1])

Occurrence(c, p) == SubSeq(c, p + 1, p + AddrLen)

Contains(view, s) ==
    \E k \in 0..(Len(view) - Len(s)) : SubSeq(view, k + 1, k + Len(s)) = s

FirstReadEnd == ChunkSize + ChunkOverlap

\* C8: in chunked mode an address occurrence delimited by non-address bytes,
\* at any offset of a file of any length, also across the boundary between
\* two reads, is intact in the view of the read that delivers its last byte
\* and is in the file's results.
C8_BoundaryAddressFound ==
    (fEnc = "raw" /\ fIo = "full") =>
        \A p \in 0..(Len(fContent) - AddrLen) :
            (OccursAt(fContent, p) /\ ~isGenericOnion(Occurrence(fContent, p))) =>
                /\ p + AddrLen <= fSt.pos =>
                      ToLower(Occurrence(fContent, p)) \in Values(fSt.results)
                /\ (fSt.pos - fRead.n < p + AddrLen /\ p + AddrLen <= fSt.pos) =>
                      Contains(fView, Occurrence(fContent, p))
                /\ fPc = "done" =>
                      ToLower(Occurrence(fContent, p)) \in Values(fOut)

\* an address that starts before the end of the first read and ends after it
C8_Witness ==
    /\ fPc = "done"
    /\ fEnc = "raw"
    /\ \E p \in 0..(Len(fContent) - AddrLen) :
          /\ OccursAt(fContent, p)
          /\ p < FirstReadEnd
          /\ p + AddrLen > FirstReadEnd
          /\ ~isGenericOnion(Occurrence(fContent, p))
          /\ ToLower(Occurrence(fContent, p)) \in Values(fOut)

NoValueTwice(rs) ==
    \A i, j \in 1..Len(rs) : rs[i].Value = rs[j].Value => i = j

\* C10: the record list scanFile builds and returns never holds a value
\* twice: one record per distinct value of the file.
C10_OneRecordPerValue ==
    /\ NoValueTwice(fSt.results)
    /\ NoValueTwice(fOut)
    /\ \A i \in 1..Len(fOut) : fOut[i].Path = FilePath

\* the address occurs twice in the file, both strategies find it, and the
\* last view holds it in the overlap it shares with the view before
C10_Witness ==
    /\ fPc = "done"
    /\ fEnc = "raw"
    /\ fSt.pos > FirstReadEnd
    /\ Cardinality({ k \in 1..Len(FindAll(fContent)) :
                       ToLower(FindAll(fContent)[k]) = AddrA }) >= 2
    /\ AddrA \in Range(FindAll(extractOnionChars(fView)))
    /\ Contains(SubSeq(fView, 1, ChunkOverlap), AddrA)
    /\ Values(fOut) = { AddrA }
    /\ Len(fOut) = 1
(***************************************************************************)
(* Properties of the classifier                                            *)
(***************************************************************************)
HasBom(sample) == Len(sample) >= 2 /\ sample[1] = 255 /\ sample[2] = 254

\* more than a quarter of the odd-indexed bytes of the first
\* min(len, SampleMax) bytes are null
QuarterOfOddNull(sample) ==
    LET sampleSize == Min(Len(sample), SampleMax)
    IN  4 * NullCount(sample, sampleSize) > Cardinality(OddIndices(sampleSize))

\* C9: a sample is classified UTF16LE exactly when it starts with 0xFF 0xFE
\* or more than 25% of the odd-indexed bytes of its first min(len, 200)
\* bytes are null; otherwise RAW.
C9_Classification ==
    dOut \in { "UTF16LE", "RAW" } =>
        (dOut = "UTF16LE" <=> (HasBom(dSample) \/ QuarterOfOddNull(dSample)))
(***************************************************************************)
(* Properties of the dedup key                                             *)
(***************************************************************************)
PathX == Join(DirD, <<120>>)

PathB == Join(DirD, AddrB)

\* C11: records with the same value and different paths are kept apart:
\* two recorded pairs with the same dedup key are the same pair, the seen
\* map holds exactly the keys of the records, and at return every address
\* of every scanned file is recorded under that file's path.
C11_OneRecordPerPath ==
    /\ \A i, j \in 1..Len(results) :
          DedupKey(results[i].Value, results[i].Path)
              = DedupKey(results[j].Value, results[j].Path)
          => results[i] = results[j]
    /\ seen = { DedupKey(results[i].Value, results[i].Path) : i \in 1..Len(results) }
    /\ Returned =>
          \A i \in Entries :
              enq[i] > 0 =>
                  LET found == scanFile(Tree[i].content, Tree[i].readable,
                                        Tree[i].path)
                  IN  \A k \in 1..Len(found) :
                          Cardinality({ n \in 1..Len(ret[1].results) :
                                          ret[1].results[n] = found[k] }) = 1

\* aaaaaa.onion is in /m/d/x and in /m/d/bbbbbb.onion: one record for each
C11_Witness ==
    /\ Returned
    /\ "sub" \in treeId
    /\ Cardinality({ n \in 1..Len(ret[1].results) :
                       ret[1].results[n] = [Value |-> AddrA, Path |-> PathX] }) = 1
    /\ Cardinality({ n \in 1..Len(ret[1].results) :
                       ret[1].results[n] = [Value |-> AddrA, Path |-> PathB] }) = 1
(***************************************************************************)
(* Properties of the UTF-16LE branch                                       *)
(***************************************************************************)
Bom == <<255, 254>>

\* after the byte-order mark the code units of c spell a; what follows is
\* nothing, a stray byte, or a code unit that is no address character
SpellsAfterBom(c, a) ==
    /\ HasPrefix(c, Bom \o Interleave(a))
    /\ LET rest == SubSeq(c, Len(Bom) + 2 * Len(a) + 1, Len(c))
       IN  Len(rest) >= 2 => ~(rest[2] = 0 /\ isValidOnionChar(rest[1]))

RecordsOf(rs, v) == { n \in 1..Len(rs) : rs[n].Value = v }

\* C12: for a file that starts with the byte-order mark and whose code
\* units then spell an address, of even or odd length, scanFile takes the
\* UTF-16LE branch and returns that address, lower-cased, exactly once.
C12_BomFileDecoded ==
    (fPc = "done" /\ fReadable /\ fIo = "full") =>
        \A a \in { AddrA, AddrUpper } :
            SpellsAfterBom(fContent, a) =>
                /\ fEnc = "utf16"
                /\ Cardinality(RecordsOf(fOut, ToLower(a))) = 1
                /\ \A n \in RecordsOf(fOut, ToLower(a)) : fOut[n].Path = FilePath

\* the mark, the address and one stray byte: an odd length
C12_Witness ==
    /\ fPc = "done"
    /\ fContent = Bom \o Interleave(AddrA) \o <<35>>
    /\ Len(fContent) % 2 = 1
    /\ fEnc = "utf16"
    /\ fOut = << [Value |-> AddrA, Path |-> FilePath] >>
(***************************************************************************)
(* Properties of the cleansed projection                                   *)
(***************************************************************************)
\* the bytes of a, a null byte between every two of them, start at offset p
\* (0-based) of c, after the start of the file or a byte that is neither
\* null nor an address character
NullInterleavedAt(c, p, a) ==
    /\ p + 2 * Len(a) - 1 <= Len(c)
    /\ SubSeq(c, p + 1, p + 2 * Len(a) - 1) = NullBetween(a)
    /\ p > 0 => (c[p] /= 0 /\ ~isValidOnionChar(c[p]))

\* C13: for a file that holds the bytes of an address with a null byte
\* between every two characters, at any offset and among any other bytes,
\* the results of scanFile contain that address.
C13_NullInterleavedFound ==
    (fPc = "done" /\ fReadable /\ fIo = "full") =>
        \A a \in { AddrA, AddrUpper } :
            \A p \in 0..Len(fContent) :
                NullInterleavedAt(fContent, p, a) =>
                    ToLower(a) \in Values(fOut)
(***************************************************************************)
(* Properties of the error ScanForOnions returns                           *)
(***************************************************************************)
\* the walk fails at top level: the root cannot be examined
RootFails == Tree[1].kind = "walkErr" /\ Tree[1].path = Root

\* C14: ScanForOnions returns a non-nil error exactly when the walk itself
\* fails at top level; an error on one file or directory entry never makes it
\* return an error and never removes the records of other files.
C14_ErrorIffWalkFails ==
    Returned =>
        /\ ret[1].err /= "nil" <=> RootFails
        /\ Pairs(ret[1].results) = ExpectedPairs
(***************************************************************************)
(* Properties of the read loop under read errors                           *)
(***************************************************************************)
ReadFailed == fRead.err = "EIO"

\* the results after a failed read: what the earlier reads found (results),
\* and every address that lies in the bytes delivered so far, those of the
\* failing read included
C15_State ==
    (fEnc = "raw" /\ fIo = "fail") =>
        /\ (ReadFailed \/ fRead.err = "EOF") => fPc = "done"
        /\ ReadFailed =>
              /\ fOut = fSt.results
              /\ \A p \in 0..(Len(fContent) - AddrLen) :
                    (/\ OccursAt(fContent, p)
                     /\ p + AddrLen <= fSt.pos
                     /\ ~isGenericOnion(Occurrence(fContent, p)))
                    => ToLower(Occurrence(fContent, p)) \in Values(fOut)

\* C15: in chunked mode a read error other than end-of-stream ends the scan
\* of the file with every record found so far, the matches in the bytes
\* delivered with the failing read included; after the first zero-byte read
\* or read error the loop takes no further step and the records stay.
C15_ReadErrorKeepsRecords ==
    /\ []C15_State
    /\ [][(fPc = "chunk" /\ fRead'.err /= "nil") =>
             /\ fPc' = "done"
             /\ \A k \in 1..Len(fSt.results) : fOut'[k] = fSt.results[k]]_vars
    /\ [][fPc = "done" => UNCHANGED fvars]_vars

\* the second read fails and delivers bbbbbb.onion; aaaaaa.onion came with
\* the first read
C15_Witness ==
    /\ fPc = "done"
    /\ ReadFailed
    /\ fRead.n > 0
    /\ fSt.pos - fRead.n > 0
    /\ \E p \in 0..(Len(fContent) - AddrLen) :
          /\ Occurrence(fContent, p) = AddrB
          /\ p >= fSt.pos - fRead.n
          /\ p + AddrLen <= fSt.pos
    /\ \E p \in 0..(Len(fContent) - AddrLen) :
          /\ Occurrence(fContent, p) = AddrA
          /\ p + AddrLen <= fSt.pos - fRead.n
    /\ Values(fOut) = { AddrA, AddrB }
(***************************************************************************)
(* Properties of decoding malformed UTF-16LE                               *)
(***************************************************************************)
\* the 16-bit little-endian code units of c after the byte-order mark
CodeUnits(c) ==
    LET start == IF HasBom(c) THEN 2 ELSE 0
    IN  [i \in 1..((Len(c) - start) \div 2) |->
            c[start + 2 * i - 1] + 256 * c[start + 2 * i]]

\* a surrogate code unit that is not half of a high-low pair
HasUnpairedSurrogate(u16) ==
    \E i \in 1..Len(u16) :
        \/ IsHighSurrogate(u16[i]) /\ ~(i < Len(u16) /\ IsLowSurrogate(u16[i + 1]))
        \/ IsLowSurrogate(u16[i]) /\ ~(i > 1 /\ IsHighSurrogate(u16[i - 1]))

\* C16: a file classified UTF16LE whose content is malformed UTF-16LE (an
\* unpaired surrogate code unit) is treated as empty: scanFile returns no
\* records for it.
C16_MalformedIsEmpty ==
    (/\ fPc = "done"
     /\ fEnc = "utf16"
     /\ fIo = "full"
     /\ HasUnpairedSurrogate(CodeUnits(fContent)))
    => fOut = <<>>
(***************************************************************************)
(* Properties of the job queue                                             *)
(***************************************************************************)
QueueFull == Len(queue) = QueueCap

\* C17: the queue never holds more than its capacity of pending jobs; while
\* it is full the walker stays at its send, enqueues nothing and visits no
\* further entry, until a worker has taken a job.
C17_QueueBounded ==
    /\ [](Len(queue) <= QueueCap)
    /\ [][(mPc = "send" /\ QueueFull) =>
             (mPc' = "send" /\ wpos' = wpos /\ enq' = enq)]_vars

\* the walker has a job to send and the queue is full
C17_Witness ==
    /\ mPc = "send"
    /\ QueueFull
    /\ Dispatches(Tree[wpos])
    /\ \A w \in Workers : wk[w].pc /= "exited"
(***************************************************************************)
(* Termination                                                             *)
(***************************************************************************)
WalkerHoldsLock == mux = MuxHeld("walker", 0)

\* the walker is never at its send with the result lock held; a worker at
\* its receive can step unless the queue is empty and not closed; until
\* ScanForOnions has returned the main goroutine or some worker can step, or
\* the progress goroutine holds the lock and can release it
C18_State ==
    /\ mPc \in { "send", "close", "wait" } => ~WalkerHoldsLock
    /\ \A w \in Workers :
          wk[w].pc = "recv" =>
              ((ENABLED (WorkerRecv(w) \/ WorkerExit(w)))
                  <=> ~(queue = <<>> /\ closed = 0))
    /\ ~Returned =>
          ENABLED (MainStep \/ ProgRead \/ \E w \in Workers : WorkerStep(w))

\* C18: for a finite tree whose file reads all end, under fair scheduling,
\* ScanForOnions eventually returns; the pipeline cannot deadlock.
C18_EventuallyReturns ==
    /\ []C18_State
    /\ <>Returned

\* returned after more jobs than the queue holds went through it
C18_Witness ==
    /\ Returned
    /\ Cardinality({ i \in Entries : enq[i] > 0 }) > QueueCap
    /\ \A i \in Entries : merged[i] = enq[i]
    /\ \A w \in Workers : wk[w].pc = "exited"

(***************************************************************************)
(* The progress goroutine                                                  *)
(***************************************************************************)
ProgStopped == pPc = "stopped"

\* C19: once the scan is complete and done is closed the progress goroutine
\* eventually stops: nobody else holds the result lock any more, and once
\* stopped it stays stopped.
C19_ProgressStops ==
    /\ doneClosed ~> ProgStopped
    /\ [](doneClosed =>
            /\ \A w \in Workers : wk[w].pc = "exited"
            /\ mux \in { MuxFree, MuxHeld("progress", 0) })
    /\ [][ProgStopped => ProgStopped']_vars

\* stopped after the scan of a tree with files
C19_Witness ==
    /\ ProgStopped
    /\ doneClosed
    /\ filesProcessed > 0
    /\ mux = MuxFree
(***************************************************************************)
(* The processed-file counter                                              *)
(***************************************************************************)
Enqueued == { i \in Entries : enq[i] > 0 }

Dequeued == { i \in Entries : deq[i] > 0 }

Scanning == { w \in Workers : wk[w].pc = "scan" }

\* the counter counts the dequeued jobs whose scan is over; what
\* ScanForOnions reports at return is the number of enqueued jobs
C20_State ==
    /\ filesProcessed = Cardinality(Dequeued) - Cardinality(Scanning)
    /\ Returned =>
          /\ filesProcessed = Cardinality(Enqueued)
          /\ ret[1].files = Cardinality(Enqueued)

\* C20: the processed-file counter never decreases, goes up by one once per
\* dequeued job, in a step of a worker that does not hold the result lock,
\* and equals the number of enqueued jobs when ScanForOnions returns.
C20_CounterExact ==
    /\ []C20_State
    /\ [][filesProcessed' >= filesProcessed]_vars
    /\ [][filesProcessed' /= filesProcessed =>
             /\ filesProcessed' = filesProcessed + 1
             /\ \E w \in Workers :
                   /\ wk[w].pc = "scan"
                   /\ wk'[w].pc = "lock"
                   /\ mux /= MuxHeld("worker", w)
                   /\ mux' = mux]_vars

\* returned with every job counted: several workers, more jobs than the
\* queue holds
C20_Witness ==
    /\ Returned
    /\ numWorkers = MaxWorkers
    /\ ret[1].files = Cardinality(Enqueued)
    /\ ret[1].files > QueueCap
(***************************************************************************)
(* The result lock                                                         *)
(***************************************************************************)
\* the tasks inside a section that reads or writes results and seen: the
\* walker in its filename merge, a worker in its merge loop, the progress
\* goroutine reading len(results)
InSection ==
    (IF mPc = "merge" THEN { MuxHeld("walker", 0) } ELSE {})
    \cup { MuxHeld("worker", w) : w \in { v \in Workers : wk[v].pc = "merge" } }
    \cup (IF pPc = "read" THEN { MuxHeld("progress", 0) } ELSE {})

C21_State ==
    /\ Cardinality(InSection) <= 1
    /\ \A t \in InSection : mux = t
    /\ mux /= MuxFree => mux \in InSection
    /\ \A w \in Workers : wk[w].pc = "scan" => mux /= MuxHeld("worker", w)
    /\ mPc \in { "return", "returned" } =>
          /\ \A w \in Workers : wk[w].pc = "exited"
          /\ WalkEnded
          /\ mux \in { MuxFree, MuxHeld("progress", 0) }

\* C21: at most one task at a time is inside a section that reads or writes
\* the result collection and the dedup map, and it holds the result lock;
\* the collection and the map change only in the step that ends such a
\* section; the unlocked reads of the main goroutine come after every worker
\* has exited and the walk has ended; a worker scanning a file does not hold
\* the lock.
C21_SingleWriter ==
    /\ []C21_State
    /\ [][(results' /= results \/ seen' /= seen) =>
             (mux /= MuxFree /\ mux \in InSection /\ mux' = MuxFree)]_vars

\* a worker merges while the walker, the progress goroutine and another
\* worker wait for the lock
C21_Witness ==
    /\ \E w \in Workers :
          /\ wk[w].pc = "merge"
          /\ mux = MuxHeld("worker", w)
          /\ Len(wk[w].onions) > 0
          /\ \E v \in Workers : v /= w /\ wk[v].pc = "lock"
    /\ mPc = "lock"
    /\ pPc = "lock"
(***************************************************************************)
(* The file names                                                          *)
(***************************************************************************)
\* the callback was called for entry i and has done its filename merge: the
\* walk is past i, or at the send for i; the entries under a directory the
\* callback answered with SkipDir are never visited
NamesMerged(i) ==
    /\ i < wpos \/ (i = wpos /\ mPc = "send")
    /\ ~\E j \in 1..(i - 1) :
          /\ Tree[j].kind = "dir"
          /\ Plan[j].excluded
          /\ IsUnder(Tree[i].path, Tree[j].path)

NamePairs(i) ==
    { <<ToLower(Plan[i].names[k]), Tree[i].path>> :
        k \in { n \in 1..Len(Plan[i].names) : ~isGenericOnion(Plan[i].names[n]) } }

C22_State ==
    \A i \in Entries :
        (Tree[i].kind /= "walkErr" /\ ~Plan[i].excluded) =>
            /\ NamesMerged(i) => NamePairs(i) \subseteq Pairs(results)
            /\ enq[i] > 0 => NamePairs(i) \subseteq Pairs(results)

\* C22: for every visited entry that is not excluded, a directory or a file,
\* sent to the workers or skipped for its size or its unreadable metadata,
\* the addresses in its base name are recorded with its full path, and they
\* are recorded before the entry's job is enqueued.
C22_NamesRecorded ==
    /\ []C22_State
    /\ [][\A i \in Entries :
             enq'[i] /= enq[i] => NamePairs(i) \subseteq Pairs(results)]_vars

\* a directory, a file above the size ceiling, a file without metadata and a
\* file that is sent, each with an address for a name
C22_Witness ==
    /\ Returned
    /\ treeId = { "skip", "sub" }
    /\ \E i \in Entries :
          /\ Tree[i].path = DirE /\ Tree[i].kind = "dir"
          /\ NamePairs(i) /= {} /\ NamePairs(i) \subseteq Pairs(ret[1].results)
    /\ \E i \in Entries :
          /\ Tree[i].size > MaxFileSize /\ enq[i] = 0
          /\ NamePairs(i) /= {} /\ NamePairs(i) \subseteq Pairs(ret[1].results)
    /\ \E i \in Entries :
          /\ Tree[i].path = PathU /\ Tree[i].infoErr /\ enq[i] = 0
          /\ NamePairs(i) /= {} /\ NamePairs(i) \subseteq Pairs(ret[1].results)
    /\ \E i \in Entries :
          /\ enq[i] > 0
          /\ NamePairs(i) /= {} /\ NamePairs(i) \subseteq Pairs(ret[1].results)
(***************************************************************************)
(* Properties of the exclusion filter                                      *)
(***************************************************************************)
\* path is one of the excluded directories or lies beneath one, names
\* compared without regard to case
InExcludedSubtree(path, excluded) ==
    \E k \in 1..Len(excluded) :
        \/ ToLower(Clean(path)) = ToLower(Clean(excluded[k]))
        \/ IsUnder(ToLower(Clean(path)), ToLower(excluded[k]))

\* C23: isExcludedPath classifies a path as excluded exactly when it is one
\* of the excluded directories or lies beneath one of them; a sibling whose
\* name only begins with the name of an excluded directory is not excluded.
C23_ExcludedIffUnder ==
    xOut \in { "excluded", "kept" } =>
        (xOut = "excluded" <=> InExcludedSubtree(xPath, buildExcludedPaths(xRoot)))
(***************************************************************************)
(* The progress lines and the end of the scan                              *)
(***************************************************************************)
\* the step of the progress goroutine that prints a progress line
PrintsProgress == pPc = "read" /\ pPc' = "select"

\* every worker has exited, done is closed and the summary is printed
ScanEnded ==
    /\ \A w \in Workers : wk[w].pc = "exited"
    /\ doneClosed
    /\ Returned

\* C24: once every worker has exited, done is closed and the final summary
\* is printed, the progress goroutine prints no further progress line,
\* however the tick and the close of done interleave.
C24_NoProgressAfterEnd ==
    [][ScanEnded => ~PrintsProgress]_vars
(***************************************************************************)
(* Chunked scanning against one scan of the whole file                     *)
(***************************************************************************)
\* the values the match loop keeps of a list of matches
KeptValues(matches) ==
    { ToLower(matches[k]) :
        k \in { n \in 1..Len(matches) : ~isGenericOnion(ToLower(matches[n])) } }

\* both strategies applied once to the whole content as a single block
WholeFileValues(content) == KeptValues(scanChunk(content))

\* C25: for a RAW file read with full reads the set of values
\* scanFileChunked returns equals the set both strategies give on the whole
\* content as one block, also for runs longer than the overlap and for
\* addresses with null bytes between their characters.
C25_ChunkingTransparent ==
    (fPc = "done" /\ fEnc = "raw" /\ fIo = "full") =>
        Values(fOut) = WholeFileValues(fContent)
(***************************************************************************)
(* The overlap under short reads                                           *)
(***************************************************************************)
\* the offset at which the last read started
ReadStart == fSt.pos - fRead.n

\* C26: whatever sizes the reads return, short reads of fewer bytes than the
\* overlap included, every scanned view is the newly read bytes preceded by
\* the last min(ChunkOverlap, bytes read before) bytes of the file before
\* them: no byte before a boundary is missing from the view after it.
C26_ViewKeepsOverlap ==
    (fEnc = "raw" /\ fRead.n > 0) =>
        fView = SubSeq(fContent, ReadStart - Min(ChunkOverlap, ReadStart) + 1,
                       fSt.pos)
(***************************************************************************)
(* Properties of the mount log                                             *)
(***************************************************************************)
\* the last call that appended to the log was a LogMount
LastIsMount == cHist /= <<>> /\ cHist[Len(cHist)].op = "mount"

\* GetLastMountedDevice gives the device of the most recent LogMount when no
\* LogDismount was logged after it, and an error otherwise
LastMountedRight ==
    LET r == GetLastMountedDevice(cLogExists, cLog)
    IN  IF LastIsMount
        THEN r = [device |-> cHist[Len(cHist)].device, err |-> "nil"]
        ELSE r.err /= "nil" /\ r.device = <<>>

\* this run and the run before it are --dismount requests that both called
\* Dismount for the same logged mount
SameMountTwice ==
    /\ cPrev.kind = "dismount"
    /\ cCur.kind = "dismount"
    /\ cCur.mount /= 0
    /\ cCur.mount = cPrev.mount

EndsAfterMount ==
    { "scanErr", "reportErr", "torErr", "checkErr", "resultsErr", "success" }

\* C28: a run that mounted an E01 image without --keep-mounted calls
\* Dismount on the mounted device exactly once, when main returns, however
\* the run ends after the mount; a run with --keep-mounted, or one that
\* scans a directory, never calls Dismount.
C28_DismountExactlyOnce ==
    cCur.kind = "scan" =>
        /\ cPc /= "exited" => cCalls = <<>>
        /\ (cPc = "exited" /\ cEnd \in EndsAfterMount) =>
              cCalls = IF cMounted /\ ~cArgs.keep THEN <<cDev>> ELSE <<>>
        /\ (cArgs.keep \/ cArgs.input = "dir") => cCalls = <<>>

\* an image was mounted, Tor was not there, and the device was dismounted
\* once
C28_Witness ==
    /\ cPc = "exited"
    /\ cArgs.input = "e01"
    /\ ~cArgs.keep
    /\ cMounted
    /\ cEnd = "torErr"
    /\ cDev \in Devices
    /\ cCalls = <<cDev>>
====
